---- MODULE Spec2Model ----
(***************************************************************************)
(* Model of the audit-ledger pipeline: bakers-agent-v1 (Composer,          *)
(* process_upload) and bakers-poster-v1 (Publisher, process_post_queue)    *)
(* coordinating through one Firestore collection, one Pub/Sub pointer      *)
(* topic and a dead-letter topic.                                          *)
(***************************************************************************)
EXTENDS Integers, Sequences, FiniteSets, TLC

\* ------------------------------------------------------------------ bounds
NumComposers == 2          \* concurrent process_upload instances
NumPublishers == 2         \* concurrent process_post_queue instances
MaxTicks == 2              \* clock ticks observed
TickSeconds == 60          \* seconds per clock tick
MaxGrants == 2             \* locks granted per record under the fair scheduler

\* --------------------------------------------------------- program constants
MAX_REACT_ROUNDS == 3
LOCK_TTL_SECONDS == 120
TERMINAL_STATUSES == {"POSTED", "FAILED"}
ALLOWED_MIME_TYPES ==
    {"image/jpeg", "image/png", "image/webp", "image/gif", "image/heic", "image/heif"}

Null == "null"             \* a field that is not in the document (None)
NoToken == 0               \* lock_token None
NoTime == -1               \* locked_at None

Composers == 1..NumComposers
Publishers == 1..NumPublishers

\* ------------------------------------------------------------ input domains
Buckets == {"bkt"}
Names == {"cake.jpg", "notes.txt"}
Generations == {"1"}
\* the contentType the object was uploaded with; the handler does not read it
ContentTypes == {"image/jpeg", "text/plain"}
Events == [bucket : Buckets, name : Names, generation : Generations,
           contentType : ContentTypes]
NoEvent == [bucket |-> Null, name |-> Null, generation |-> Null, contentType |-> Null]

\* mimetypes.guess_type(filename.lower())[0] over the names of the model
guess_type(filename) ==
    CASE filename = "cake.jpg" -> "image/jpeg"
      [] filename = "1:cake.jpg" -> "image/jpeg"
      [] filename = "notes.txt" -> "text/plain"
      [] OTHER -> Null

\* a gate that lets every guessable MIME type through
get_mime_type_any_type(filename) ==
    LET mime_type == guess_type(filename)
    IN mime_type

get_mime_type(filename) ==
    LET mime_type == guess_type(filename)
    IN IF mime_type # Null /\ mime_type \in ALLOWED_MIME_TYPES THEN mime_type ELSE Null

\* hashlib.sha256(raw).hexdigest(), taken as injective on the raw string
sha256(raw) == raw

\* an id that leaves the generation out
make_doc_id_without_generation(bucket, name, generation) ==
    sha256(bucket \o ":" \o name)

make_doc_id(bucket, name, generation) ==
    sha256(bucket \o ":" \o name \o ":" \o generation)

DocIds == {make_doc_id(e.bucket, e.name, e.generation) : e \in Events}

\* --------------------------------------------------------------- documents
NoDoc ==
    [exists |-> FALSE, status |-> Null, bucket |-> Null, filename |-> Null,
     draft |-> Null, image_url |-> Null, lock_token |-> NoToken,
     locked_at |-> NoTime, failure_reason |-> Null, gbp_post_name |-> Null]

VARIABLES
    docs,          \* Firestore collection "captions": doc_id -> document
    now,           \* datetime.utcnow(), in seconds
    topic,         \* pointer topic: doc_id -> "none" | "pending" | "acked"
    dlq,           \* messages published on the dead-letter topic
    gbpPosts,      \* doc_id -> local posts accepted by the platform
    postEnds,      \* doc_id -> the ways publishing calls for it have ended
    cpc, cev,      \* process_upload instance: position, event
    ppc, pdoc, ptoken,   \* process_post_queue instance: position, doc_id, lock_token
    claimWins,     \* doc_id -> claim_document calls that returned True
    genCalls,      \* doc_id -> generate_with_react calls
    grants,        \* doc_id -> sequence of [token, at] returned by acquire_posting_lock
    releaseWins,   \* doc_id -> release calls that returned True
    apiRet,        \* the last direct call of a store operation and what it returned
    gpc,           \* generate_with_react: position
    attempt,       \* generate_with_react: rounds finished
    prompt,        \* generate_with_react: critiques appended to the prompt
    gret,          \* generate_with_react: value returned
    gcalls,        \* model.generate_content calls made
    rounds,        \* how each round ended
    parsed         \* the candidate of the last round that decoded

composerVars == <<cpc, cev>>
publisherVars == <<ppc, pdoc, ptoken>>
historyVars == <<claimWins, genCalls, grants, releaseWins>>
NoCall == [op |-> "none", doc_id |-> Null, token |-> NoToken, ret |-> FALSE]

loopVars == <<gpc, attempt, prompt, gret, gcalls, rounds, parsed>>

pipelineVars == <<docs, now, topic, dlq, gbpPosts, postEnds, cpc, cev, ppc, pdoc, ptoken,
                  claimWins, genCalls, grants, releaseWins, apiRet>>

vars == <<pipelineVars, loopVars>>

Init ==
    /\ docs = [i \in DocIds |-> NoDoc]
    /\ now = 0
    /\ topic = [i \in DocIds |-> "none"]
    /\ dlq = {}
    /\ gbpPosts = [i \in DocIds |-> 0]
    /\ postEnds = [i \in DocIds |-> {}]
    /\ cpc = [w \in Composers |-> "idle"]
    /\ cev = [w \in Composers |-> NoEvent]
    /\ ppc = [w \in Publishers |-> "idle"]
    /\ pdoc = [w \in Publishers |-> Null]
    /\ ptoken = [w \in Publishers |-> NoToken]
    /\ claimWins = [i \in DocIds |-> 0]
    /\ genCalls = [i \in DocIds |-> 0]
    /\ grants = [i \in DocIds |-> <<>>]
    /\ releaseWins = [i \in DocIds |-> 0]
    /\ apiRet = NoCall
    /\ gpc = "idle"
    /\ attempt = 0
    /\ prompt = <<>>
    /\ gret = <<"None">>
    /\ gcalls = 0
    /\ rounds = <<>>
    /\ parsed = [caption |-> <<"None">>, word_count |-> 0, contains_price |-> FALSE]

\* ------------------------------------------------- RecordStore operations
\* Each operation is evaluated on a collection ds, with up = FALSE when the
\* Firestore call raises (contention, transient store error), and gives its
\* return value and the collection it leaves behind.

\* the transaction body without the snapshot.exists test
_claim_overwrites(ds, doc_id, bucket, filename) ==
    [ret |-> TRUE,
     docs |-> [ds EXCEPT ![doc_id] =
                  [NoDoc EXCEPT !.exists = TRUE, !.bucket = bucket,
                                !.filename = filename, !.status = "RECEIVED"]]]

\* claim_document._claim: the transaction body
_claim(ds, doc_id, bucket, filename) ==
    IF ds[doc_id].exists
    THEN [ret |-> FALSE, docs |-> ds]
    ELSE [ret |-> TRUE,
          docs |-> [ds EXCEPT ![doc_id] =
                       [NoDoc EXCEPT !.exists = TRUE, !.bucket = bucket,
                                     !.filename = filename, !.status = "RECEIVED"]]]

\* a failed transaction reported as "claimed"
claim_document_fail_open(ds, up, doc_id, bucket, filename) ==
    IF up THEN _claim(ds, doc_id, bucket, filename)
    ELSE [ret |-> TRUE, docs |-> ds]

\* claim_document: a failed transaction is reported as "not claimed"
claim_document(ds, up, doc_id, bucket, filename) ==
    IF up THEN _claim(ds, doc_id, bucket, filename)
    ELSE [ret |-> FALSE, docs |-> ds]

\* update_status without the extra fields
update_status_status_only(ds, up, doc_id, status, extra_fields) ==
    IF up /\ ds[doc_id].exists
    THEN [ds EXCEPT ![doc_id].status = status]
    ELSE ds

\* update_status: DocumentReference.update raises on a missing document and
\* on a store failure; both are logged and swallowed
update_status(ds, up, doc_id, status, extra_fields) ==
    IF up /\ ds[doc_id].exists
    THEN [ds EXCEPT ![doc_id] =
             [f \in DOMAIN NoDoc |->
                 IF f = "status" THEN status
                 ELSE IF f \in DOMAIN extra_fields THEN extra_fields[f]
                 ELSE ds[doc_id][f]]]
    ELSE ds

NoExtra == [g \in {} |-> Null]

\* the transaction body without the lock_age test
_acquire_ignores_ttl(ds, doc_id, lock_token, t) ==
    LET data == ds[doc_id]
        update == [ds EXCEPT ![doc_id].status = "POSTING",
                             ![doc_id].lock_token = lock_token,
                             ![doc_id].locked_at = t]
    IN IF ~data.exists THEN [ret |-> NoToken, docs |-> ds]
       ELSE IF data.status \in TERMINAL_STATUSES THEN [ret |-> NoToken, docs |-> ds]
       ELSE IF data.status \notin {"QUEUED", "POSTING"} THEN [ret |-> NoToken, docs |-> ds]
       ELSE [ret |-> lock_token, docs |-> update]

\* acquire_posting_lock._acquire: the transaction body
\* the transaction body without the test for an unexpected status
_acquire_from_any_status(ds, doc_id, lock_token, t) ==
    LET data == ds[doc_id]
        status == data.status
        locked_at == data.locked_at
        lock_age == t - locked_at
        update == [ds EXCEPT ![doc_id].status = "POSTING",
                             ![doc_id].lock_token = lock_token,
                             ![doc_id].locked_at = t]
    IN IF ~data.exists THEN [ret |-> NoToken, docs |-> ds]
       ELSE IF status \in TERMINAL_STATUSES THEN [ret |-> NoToken, docs |-> ds]
       ELSE IF status = "POSTING" /\ locked_at # NoTime /\ lock_age < LOCK_TTL_SECONDS
            THEN [ret |-> NoToken, docs |-> ds]
       ELSE [ret |-> lock_token, docs |-> update]

_acquire(ds, doc_id, lock_token, t) ==
    LET data == ds[doc_id]
        status == data.status
        locked_at == data.locked_at
        lock_age == t - locked_at
        update == [ds EXCEPT ![doc_id].status = "POSTING",
                             ![doc_id].lock_token = lock_token,
                             ![doc_id].locked_at = t]
    IN IF ~data.exists THEN [ret |-> NoToken, docs |-> ds]
       ELSE IF status \in TERMINAL_STATUSES THEN [ret |-> NoToken, docs |-> ds]
       ELSE IF status = "POSTING" /\ locked_at # NoTime /\ lock_age < LOCK_TTL_SECONDS
            THEN [ret |-> NoToken, docs |-> ds]
       ELSE IF status \notin {"QUEUED", "POSTING"} THEN [ret |-> NoToken, docs |-> ds]
       ELSE [ret |-> lock_token, docs |-> update]

\* acquire_posting_lock: a failed transaction is reported as "no lock"
acquire_posting_lock(ds, up, doc_id, lock_token, t) ==
    IF up THEN _acquire(ds, doc_id, lock_token, t)
    ELSE [ret |-> NoToken, docs |-> ds]

\* release_lock_success without the lock_token comparison
release_lock_success_unchecked(ds, up, doc_id, lock_token, post_name) ==
    IF ~up THEN [ret |-> FALSE, docs |-> ds]
    ELSE IF ~ds[doc_id].exists THEN [ret |-> FALSE, docs |-> ds]
    ELSE [ret |-> TRUE,
          docs |-> [ds EXCEPT ![doc_id].status = "POSTED",
                              ![doc_id].gbp_post_name = post_name,
                              ![doc_id].lock_token = NoToken,
                              ![doc_id].locked_at = NoTime]]

\* release_lock_success without the two DELETE_FIELD updates
release_lock_success_keeps_lock(ds, up, doc_id, lock_token, post_name) ==
    IF ~up THEN [ret |-> FALSE, docs |-> ds]
    ELSE IF ~ds[doc_id].exists THEN [ret |-> FALSE, docs |-> ds]
    ELSE IF ds[doc_id].lock_token # lock_token THEN [ret |-> FALSE, docs |-> ds]
    ELSE [ret |-> TRUE,
          docs |-> [ds EXCEPT ![doc_id].status = "POSTED",
                              ![doc_id].gbp_post_name = post_name]]

\* release_lock_success
release_lock_success(ds, up, doc_id, lock_token, post_name) ==
    IF ~up THEN [ret |-> FALSE, docs |-> ds]
    ELSE IF ~ds[doc_id].exists THEN [ret |-> FALSE, docs |-> ds]
    ELSE IF ds[doc_id].lock_token # lock_token THEN [ret |-> FALSE, docs |-> ds]
    ELSE [ret |-> TRUE,
          docs |-> [ds EXCEPT ![doc_id].status = "POSTED",
                              ![doc_id].gbp_post_name = post_name,
                              ![doc_id].lock_token = NoToken,
                              ![doc_id].locked_at = NoTime]]

\* release_lock_failure without the lock_token comparison
release_lock_failure_unchecked(ds, up, doc_id, lock_token, reason) ==
    IF ~up THEN [ret |-> FALSE, docs |-> ds]
    ELSE IF ~ds[doc_id].exists THEN [ret |-> FALSE, docs |-> ds]
    ELSE [ret |-> TRUE,
          docs |-> [ds EXCEPT ![doc_id].status = "FAILED",
                              ![doc_id].failure_reason = reason,
                              ![doc_id].lock_token = NoToken,
                              ![doc_id].locked_at = NoTime]]

\* release_lock_failure that only tests that some lock is held
release_lock_failure_any_holder(ds, up, doc_id, lock_token, reason) ==
    IF ~up THEN [ret |-> FALSE, docs |-> ds]
    ELSE IF ~ds[doc_id].exists THEN [ret |-> FALSE, docs |-> ds]
    ELSE IF ds[doc_id].lock_token = NoToken THEN [ret |-> FALSE, docs |-> ds]
    ELSE [ret |-> TRUE,
          docs |-> [ds EXCEPT ![doc_id].status = "FAILED",
                              ![doc_id].failure_reason = reason,
                              ![doc_id].lock_token = NoToken,
                              ![doc_id].locked_at = NoTime]]

\* release_lock_failure without the two DELETE_FIELD updates
release_lock_failure_keeps_lock(ds, up, doc_id, lock_token, reason) ==
    IF ~up THEN [ret |-> FALSE, docs |-> ds]
    ELSE IF ~ds[doc_id].exists THEN [ret |-> FALSE, docs |-> ds]
    ELSE IF ds[doc_id].lock_token # lock_token THEN [ret |-> FALSE, docs |-> ds]
    ELSE [ret |-> TRUE,
          docs |-> [ds EXCEPT ![doc_id].status = "FAILED",
                              ![doc_id].failure_reason = reason]]

\* a failure release that puts the record back in the queue
release_lock_failure_requeues(ds, up, doc_id, lock_token, reason) ==
    IF ~up THEN [ret |-> FALSE, docs |-> ds]
    ELSE IF ~ds[doc_id].exists THEN [ret |-> FALSE, docs |-> ds]
    ELSE IF ds[doc_id].lock_token # lock_token THEN [ret |-> FALSE, docs |-> ds]
    ELSE [ret |-> TRUE,
          docs |-> [ds EXCEPT ![doc_id].status = "QUEUED",
                              ![doc_id].failure_reason = reason,
                              ![doc_id].lock_token = NoToken,
                              ![doc_id].locked_at = NoTime]]

\* release_lock_failure
release_lock_failure(ds, up, doc_id, lock_token, reason) ==
    IF ~up THEN [ret |-> FALSE, docs |-> ds]
    ELSE IF ~ds[doc_id].exists THEN [ret |-> FALSE, docs |-> ds]
    ELSE IF ds[doc_id].lock_token # lock_token THEN [ret |-> FALSE, docs |-> ds]
    ELSE [ret |-> TRUE,
          docs |-> [ds EXCEPT ![doc_id].status = "FAILED",
                              ![doc_id].failure_reason = reason,
                              ![doc_id].lock_token = NoToken,
                              ![doc_id].locked_at = NoTime]]

\* ------------------------------------------------------------- environment
\* one clock tick
Tick ==
    /\ now + TickSeconds <= MaxTicks * TickSeconds
    /\ now' = now + TickSeconds
    /\ UNCHANGED <<docs, topic, dlq, gbpPosts, postEnds, loopVars, composerVars, publisherVars,
                   historyVars, apiRet>>

\* uuid.uuid4(): a value no earlier call has returned
IssuedTokens == UNION {{grants[i][k].token : k \in DOMAIN grants[i]} : i \in DocIds}

\* a token generator that repeats a value it has returned before
uuid4_reused == IF IssuedTokens = {} THEN 1 ELSE CHOOSE t \in IssuedTokens : TRUE

uuid4 == 1 + Cardinality(IssuedTokens)

\* ------------------------------------------------ Composer: process_upload
DocIdOf(e) == make_doc_id(e.bucket, e.name, e.generation)
Draft == "caption"
SignedUrl == "signed-url"

\* send_to_dlq of either stage: a failed publish is logged and swallowed
send_to_dlq(q, ok, doc_id, source, reason) ==
    IF ok THEN q \cup {[doc_id |-> doc_id, source |-> source, reason |-> reason]}
    ELSE q

\* lines 382-401: read the event, gate on the MIME type, derive the doc_id
\* and pass the idempotency gate (claim_document)
C_Receive(w, e, up) ==
    /\ cpc[w] = "idle"
    /\ cev' = [cev EXCEPT ![w] = e]
    /\ IF get_mime_type(e.name) = Null
       THEN /\ cpc' = [cpc EXCEPT ![w] = "not_image"]
            /\ UNCHANGED <<docs, claimWins>>
       ELSE LET doc_id == DocIdOf(e)
                r == claim_document(docs, up, doc_id, e.bucket, e.name)
            IN /\ docs' = r.docs
               /\ cpc' = [cpc EXCEPT ![w] =
                             IF r.ret THEN "mark_generating" ELSE "already_claimed"]
               /\ claimWins' = [claimWins EXCEPT ![doc_id] = IF r.ret THEN @ + 1 ELSE @]
    /\ UNCHANGED <<now, topic, dlq, gbpPosts, postEnds, loopVars, publisherVars, genCalls, grants,
                   releaseWins, apiRet>>

\* lines 392 and 401: the handler returns without having done anything
C_Skip(w) ==
    /\ cpc[w] \in {"not_image", "already_claimed"}
    /\ cpc' = [cpc EXCEPT ![w] = "idle"]
    /\ cev' = [cev EXCEPT ![w] = NoEvent]
    /\ UNCHANGED <<docs, now, topic, dlq, gbpPosts, postEnds, loopVars, publisherVars, historyVars, apiRet>>

\* line 404
C_MarkGenerating(w, up) ==
    /\ cpc[w] = "mark_generating"
    /\ docs' = update_status(docs, up, DocIdOf(cev[w]), "GENERATING", NoExtra)
    /\ cpc' = [cpc EXCEPT ![w] = "generate"]
    /\ UNCHANGED <<now, topic, dlq, gbpPosts, postEnds, loopVars, cev, publisherVars, historyVars, apiRet>>

\* process_upload without the "if not draft" test
C_Generate_ignores_null(w, draft) ==
    /\ cpc[w] = "generate"
    /\ genCalls' = [genCalls EXCEPT ![DocIdOf(cev[w])] = @ + 1]
    /\ cpc' = [cpc EXCEPT ![w] = "sign"]
    /\ UNCHANGED <<docs, now, topic, dlq, gbpPosts, postEnds, loopVars, cev, publisherVars,
                   claimWins, grants, releaseWins, apiRet>>

\* line 407: generate_with_react returns an approved caption or None
C_Generate(w, draft) ==
    /\ cpc[w] = "generate"
    /\ genCalls' = [genCalls EXCEPT ![DocIdOf(cev[w])] = @ + 1]
    /\ cpc' = [cpc EXCEPT ![w] = IF draft = Null THEN "fail_blocked" ELSE "sign"]
    /\ UNCHANGED <<docs, now, topic, dlq, gbpPosts, postEnds, loopVars, cev, publisherVars, claimWins,
                   grants, releaseWins, apiRet>>

\* lines 409-410: every round was rejected
C_FailBlocked(w, up) ==
    /\ cpc[w] = "fail_blocked"
    /\ docs' = update_status(docs, up, DocIdOf(cev[w]), "FAILED",
                             [failure_reason |-> "SENTINEL_BLOCKED_ALL_ATTEMPTS"])
    /\ cpc' = [cpc EXCEPT ![w] = "dlq_blocked"]
    /\ UNCHANGED <<now, topic, dlq, gbpPosts, postEnds, loopVars, cev, publisherVars, historyVars, apiRet>>

\* line 416: generate_signed_url returns the URL or raises
C_Sign(w, ok) ==
    /\ cpc[w] = "sign"
    /\ cpc' = [cpc EXCEPT ![w] = IF ok THEN "queue" ELSE "fail_exc"]
    /\ UNCHANGED <<docs, now, topic, dlq, gbpPosts, postEnds, loopVars, cev, publisherVars, historyVars, apiRet>>

\* lines 419-425
C_Queue(w, up) ==
    /\ cpc[w] = "queue"
    /\ docs' = update_status(docs, up, DocIdOf(cev[w]), "QUEUED",
                             [draft |-> Draft, image_url |-> SignedUrl])
    /\ cpc' = [cpc EXCEPT ![w] = "publish"]
    /\ UNCHANGED <<now, topic, dlq, gbpPosts, postEnds, loopVars, cev, publisherVars, historyVars, apiRet>>

\* lines 429-434: publish the pointer and return, or publish raises
C_Publish(w, ok) ==
    /\ cpc[w] = "publish"
    /\ IF ok
       THEN /\ topic' = [topic EXCEPT ![DocIdOf(cev[w])] = "pending"]
            /\ cpc' = [cpc EXCEPT ![w] = "idle"]
            /\ cev' = [cev EXCEPT ![w] = NoEvent]
       ELSE /\ cpc' = [cpc EXCEPT ![w] = "fail_exc"]
            /\ UNCHANGED <<topic, cev>>
    /\ UNCHANGED <<docs, now, dlq, gbpPosts, postEnds, loopVars, publisherVars, historyVars, apiRet>>

\* lines 436-438: the except branch
C_FailExc(w, up) ==
    /\ cpc[w] = "fail_exc"
    /\ docs' = update_status(docs, up, DocIdOf(cev[w]), "FAILED",
                             [failure_reason |-> "EXCEPTION"])
    /\ cpc' = [cpc EXCEPT ![w] = "dlq_exc"]
    /\ UNCHANGED <<now, topic, dlq, gbpPosts, postEnds, loopVars, cev, publisherVars, historyVars, apiRet>>

\* a dead-letter send that also notes the forward in the record
C_Dlq_marks_record(w, ok) ==
    /\ cpc[w] \in {"dlq_blocked", "dlq_exc"}
    /\ dlq' = send_to_dlq(dlq, ok, DocIdOf(cev[w]), "bakers-agent-v1",
                          IF cpc[w] = "dlq_blocked" THEN "SENTINEL_BLOCKED_ALL_ATTEMPTS"
                          ELSE "EXCEPTION")
    /\ docs' = update_status(docs, TRUE, DocIdOf(cev[w]), "FAILED",
                             [failure_reason |-> "FORWARDED"])
    /\ cpc' = [cpc EXCEPT ![w] = "idle"]
    /\ cev' = [cev EXCEPT ![w] = NoEvent]
    /\ UNCHANGED <<now, topic, gbpPosts, postEnds, loopVars, publisherVars, historyVars, apiRet>>

\* lines 411-412 and 439: send_to_dlq, then return
C_Dlq(w, ok) ==
    /\ cpc[w] \in {"dlq_blocked", "dlq_exc"}
    /\ dlq' = send_to_dlq(dlq, ok, DocIdOf(cev[w]), "bakers-agent-v1",
                          IF cpc[w] = "dlq_blocked" THEN "SENTINEL_BLOCKED_ALL_ATTEMPTS"
                          ELSE "EXCEPTION")
    /\ cpc' = [cpc EXCEPT ![w] = "idle"]
    /\ cev' = [cev EXCEPT ![w] = NoEvent]
    /\ UNCHANGED <<docs, now, topic, gbpPosts, postEnds, loopVars, publisherVars, historyVars, apiRet>>

\* ------------------------------------------- Publisher: process_post_queue
DRY_RUN == FALSE           \* os.environ.get("DRY_RUN", "false")

RETRYABLE_STATUS == {429, 500, 502, 503, 504}
StatusCodes == {200, 400, 401, 403, 404, 429, 500, 502, 503, 504}

\* str(error).lower() of the exceptions get_credentials and the transport raise
ErrorTexts ==
    {"invalid_grant: token has been revoked", "no refresh_token in secret",
     "secret manager unavailable"}

\* the permanent_markers that occur in an error text ("marker in error_str")
MarkersIn(error_str) ==
    CASE error_str = "invalid_grant: token has been revoked" -> {"invalid_grant"}
      [] error_str = "no refresh_token in secret" -> {"no refresh_token"}
      [] OTHER -> {}

permanent_markers ==
    {"invalid_grant", "unauthorized", "permission_denied", "not_found",
     "invalid_argument", "no refresh_token"}

classify_error(error_str) ==
    IF MarkersIn(error_str) \cap permanent_markers # {} THEN "PERMANENT" ELSE "TRANSIENT"

\* what one call of post_to_gbp meets: a configuration error, an exception of
\* get_credentials, a timeout, a connection error or an HTTP response
GbpOutcomes ==
    [kind : {"config", "timeout", "connection"}, status_code : {0}, error : {Null}]
    \cup [kind : {"http"}, status_code : StatusCodes, error : {Null}]
    \cup [kind : {"RuntimeError"}, status_code : {0}, error : {"no refresh_token in secret"}]
    \cup [kind : {"Exception"}, status_code : {0}, error : ErrorTexts]

\* post_to_gbp with 503 missing from the retryable status codes
post_to_gbp_503_permanent(o) ==
    CASE o.kind = "config" -> [success |-> FALSE, status_code |-> 0, retryable |-> FALSE]
      [] o.kind = "timeout" -> [success |-> FALSE, status_code |-> 0, retryable |-> TRUE]
      [] o.kind = "connection" -> [success |-> FALSE, status_code |-> 0, retryable |-> TRUE]
      [] OTHER ->
           IF o.status_code = 200
           THEN [success |-> TRUE, status_code |-> 200, retryable |-> FALSE]
           ELSE [success |-> FALSE, status_code |-> o.status_code,
                 retryable |-> o.status_code \in {429, 500, 502, 504}]

\* post_to_gbp reporting a request timeout as not retryable
post_to_gbp_timeout_permanent(o) ==
    CASE o.kind = "config" -> [success |-> FALSE, status_code |-> 0, retryable |-> FALSE]
      [] o.kind = "timeout" -> [success |-> FALSE, status_code |-> 0, retryable |-> FALSE]
      [] o.kind = "connection" -> [success |-> FALSE, status_code |-> 0, retryable |-> TRUE]
      [] OTHER ->
           IF o.status_code = 200
           THEN [success |-> TRUE, status_code |-> 200, retryable |-> FALSE]
           ELSE [success |-> FALSE, status_code |-> o.status_code,
                 retryable |-> o.status_code \in RETRYABLE_STATUS]

\* post_to_gbp: the result dict of a call that does not raise
post_to_gbp(o) ==
    CASE o.kind = "config" -> [success |-> FALSE, status_code |-> 0, retryable |-> FALSE]
      [] o.kind = "timeout" -> [success |-> FALSE, status_code |-> 0, retryable |-> TRUE]
      [] o.kind = "connection" -> [success |-> FALSE, status_code |-> 0, retryable |-> TRUE]
      [] OTHER ->
           IF o.status_code = 200
           THEN [success |-> TRUE, status_code |-> 200, retryable |-> FALSE]
           ELSE [success |-> FALSE, status_code |-> o.status_code,
                 retryable |-> o.status_code \in RETRYABLE_STATUS]

\* normal return of the handler: the delivery is acknowledged
Ack(w) ==
    /\ topic' = [topic EXCEPT ![pdoc[w]] = "acked"]
    /\ ppc' = [ppc EXCEPT ![w] = "idle"]
    /\ pdoc' = [pdoc EXCEPT ![w] = Null]
    /\ ptoken' = [ptoken EXCEPT ![w] = NoToken]

\* the handler raises or dies: the delivery stays unacknowledged
Nack(w) ==
    /\ ppc' = [ppc EXCEPT ![w] = "idle"]
    /\ pdoc' = [pdoc EXCEPT ![w] = Null]
    /\ ptoken' = [ptoken EXCEPT ![w] = NoToken]
    /\ UNCHANGED topic

\* lines 570-614: a delivery of the pointer message; the document is read
\* outside any transaction
P_Receive(w, doc_id, up) ==
    /\ ppc[w] = "idle"
    /\ topic[doc_id] # "none"
    /\ LET snap == docs[doc_id]
       IN IF ~up THEN UNCHANGED <<ppc, pdoc>>
          ELSE IF ~snap.exists THEN UNCHANGED <<ppc, pdoc>>
          ELSE /\ ppc' = [ppc EXCEPT ![w] =
                             IF snap.draft = Null \/ snap.image_url = Null
                             THEN "dlq_incomplete" ELSE "acquire"]
               /\ pdoc' = [pdoc EXCEPT ![w] = doc_id]
    /\ topic' = [topic EXCEPT ![doc_id] =
                    IF up /\ ~docs[doc_id].exists THEN "acked" ELSE @]
    /\ UNCHANGED <<docs, now, dlq, gbpPosts, postEnds, loopVars, composerVars, ptoken, historyVars, apiRet>>

\* a handler that raises when the lock is unavailable, so that the delivery
\* is not acknowledged
P_Acquire_nacks_when_unavailable(w, up) ==
    /\ ppc[w] = "acquire"
    /\ LET doc_id == pdoc[w]
           r == acquire_posting_lock(docs, up, doc_id, uuid4, now)
       IN /\ docs' = r.docs
          /\ IF r.ret = NoToken
             THEN /\ Nack(w)
                  /\ UNCHANGED grants
             ELSE /\ ptoken' = [ptoken EXCEPT ![w] = r.ret]
                  /\ ppc' = [ppc EXCEPT ![w] = IF DRY_RUN THEN "release_dry" ELSE "post"]
                  /\ grants' = [grants EXCEPT ![doc_id] =
                                   Append(@, [token |-> r.ret, at |-> now])]
                  /\ UNCHANGED <<topic, pdoc>>
    /\ UNCHANGED <<now, dlq, gbpPosts, postEnds, loopVars, composerVars, claimWins, genCalls, releaseWins,
                   apiRet>>

\* lines 619-634: acquire_posting_lock with a fresh uuid4
P_Acquire(w, up) ==
    /\ ppc[w] = "acquire"
    /\ LET doc_id == pdoc[w]
           r == acquire_posting_lock(docs, up, doc_id, uuid4, now)
       IN /\ docs' = r.docs
          /\ IF r.ret = NoToken
             THEN /\ Ack(w)
                  /\ UNCHANGED grants
             ELSE /\ ptoken' = [ptoken EXCEPT ![w] = r.ret]
                  /\ ppc' = [ppc EXCEPT ![w] = IF DRY_RUN THEN "release_dry" ELSE "post"]
                  /\ grants' = [grants EXCEPT ![doc_id] =
                                   Append(@, [token |-> r.ret, at |-> now])]
                  /\ UNCHANGED <<topic, pdoc>>
    /\ UNCHANGED <<now, dlq, gbpPosts, postEnds, loopVars, composerVars, claimWins, genCalls, releaseWins,
                   apiRet>>

\* how a publishing call ended: what post_to_gbp returned, or what it raised
PostEnded(o) ==
    CASE o.kind = "RuntimeError" -> "raised RuntimeError"
      [] o.kind = "Exception" -> "raised Exception"
      [] OTHER -> IF post_to_gbp(o).success THEN "success"
                  ELSE IF post_to_gbp(o).retryable THEN "retryable"
                  ELSE "permanent"

\* lines 636-672: the publishing call and the branch taken on its result
P_Post(w, o) ==
    /\ ppc[w] = "post"
    /\ postEnds' = [postEnds EXCEPT ![pdoc[w]] = @ \cup {PostEnded(o)}]
    /\ IF o.kind \in {"RuntimeError", "Exception"}
       THEN /\ UNCHANGED gbpPosts
            /\ IF o.kind = "RuntimeError" \/ classify_error(o.error) = "TRANSIENT"
               THEN Nack(w)
               ELSE /\ ppc' = [ppc EXCEPT ![w] = "release_exception"]
                    /\ UNCHANGED <<topic, pdoc, ptoken>>
       ELSE LET result == post_to_gbp(o)
            IN IF result.success
               THEN /\ gbpPosts' = [gbpPosts EXCEPT ![pdoc[w]] = @ + 1]
                    /\ ppc' = [ppc EXCEPT ![w] = "release_success"]
                    /\ UNCHANGED <<topic, pdoc, ptoken>>
               ELSE /\ UNCHANGED gbpPosts
                    /\ IF result.retryable
                       THEN Nack(w)
                       ELSE /\ ppc' = [ppc EXCEPT ![w] = "release_permanent"]
                            /\ UNCHANGED <<topic, pdoc, ptoken>>
    /\ UNCHANGED <<docs, now, dlq, loopVars, composerVars, historyVars, apiRet>>

\* line 643 (and line 632 in DRY_RUN mode): release_lock_success, then return
P_ReleaseSuccess(w, up) ==
    /\ ppc[w] \in {"release_success", "release_dry"}
    /\ LET r == release_lock_success(docs, up, pdoc[w], ptoken[w], "localPost")
       IN /\ docs' = r.docs
          /\ releaseWins' = [releaseWins EXCEPT ![pdoc[w]] = IF r.ret THEN @ + 1 ELSE @]
    /\ Ack(w)
    /\ UNCHANGED <<now, dlq, gbpPosts, postEnds, loopVars, composerVars, claimWins, genCalls, grants, apiRet>>

\* lines 657 and 671: release_lock_failure
P_ReleaseFailure(w, up) ==
    /\ ppc[w] \in {"release_permanent", "release_exception"}
    /\ LET reason == IF ppc[w] = "release_permanent" THEN "GBP_PERMANENT" ELSE "EXCEPTION"
           r == release_lock_failure(docs, up, pdoc[w], ptoken[w], reason)
       IN /\ docs' = r.docs
          /\ releaseWins' = [releaseWins EXCEPT ![pdoc[w]] = IF r.ret THEN @ + 1 ELSE @]
    /\ ppc' = [ppc EXCEPT ![w] =
                  IF ppc[w] = "release_permanent" THEN "dlq_permanent" ELSE "dlq_exception"]
    /\ UNCHANGED <<now, topic, dlq, gbpPosts, postEnds, loopVars, composerVars, pdoc, ptoken,
                   claimWins, genCalls, grants, apiRet>>

\* a handler out of which a failed dead-letter publish propagates, so that
\* the delivery is not acknowledged
P_Dlq_propagates(w, ok) ==
    /\ ppc[w] \in {"dlq_incomplete", "dlq_permanent", "dlq_exception"}
    /\ dlq' = send_to_dlq(dlq, ok, pdoc[w], "bakers-poster-v1",
                          CASE ppc[w] = "dlq_incomplete" -> "INCOMPLETE_DOCUMENT"
                            [] ppc[w] = "dlq_permanent" -> "GBP_PERMANENT"
                            [] OTHER -> "EXCEPTION")
    /\ IF ok THEN Ack(w) ELSE Nack(w)
    /\ UNCHANGED <<docs, now, gbpPosts, postEnds, loopVars, composerVars, historyVars, apiRet>>

\* lines 616-617, 658 and 672: send_to_dlq, then return
P_Dlq(w, ok) ==
    /\ ppc[w] \in {"dlq_incomplete", "dlq_permanent", "dlq_exception"}
    /\ dlq' = send_to_dlq(dlq, ok, pdoc[w], "bakers-poster-v1",
                          CASE ppc[w] = "dlq_incomplete" -> "INCOMPLETE_DOCUMENT"
                            [] ppc[w] = "dlq_permanent" -> "GBP_PERMANENT"
                            [] OTHER -> "EXCEPTION")
    /\ Ack(w)
    /\ UNCHANGED <<docs, now, gbpPosts, postEnds, loopVars, composerVars, historyVars, apiRet>>

\* the instance is killed (timeout, crash) anywhere in the handler
P_Kill(w) ==
    /\ ppc[w] # "idle"
    /\ Nack(w)
    /\ UNCHANGED <<docs, now, dlq, gbpPosts, postEnds, loopVars, composerVars, historyVars, apiRet>>

\* ------------------------------------------------------------ the pipeline
ComposerStep(w) ==
    \/ \E e \in Events, up \in BOOLEAN : C_Receive(w, e, up)
    \/ C_Skip(w)
    \/ \E up \in BOOLEAN : C_MarkGenerating(w, up)
    \/ \E draft \in {Draft, Null} : C_Generate(w, draft)
    \/ \E up \in BOOLEAN : C_FailBlocked(w, up)
    \/ \E ok \in BOOLEAN : C_Sign(w, ok)
    \/ \E up \in BOOLEAN : C_Queue(w, up)
    \/ \E ok \in BOOLEAN : C_Publish(w, ok)
    \/ \E up \in BOOLEAN : C_FailExc(w, up)
    \/ \E ok \in BOOLEAN : C_Dlq(w, ok)

PublisherStep(w) ==
    \/ \E doc_id \in DocIds, up \in BOOLEAN : P_Receive(w, doc_id, up)
    \/ \E up \in BOOLEAN : P_Acquire(w, up)
    \/ \E o \in GbpOutcomes : P_Post(w, o)
    \/ \E up \in BOOLEAN : P_ReleaseSuccess(w, up)
    \/ \E up \in BOOLEAN : P_ReleaseFailure(w, up)
    \/ \E ok \in BOOLEAN : P_Dlq(w, ok)
    \/ P_Kill(w)

Next ==
    \/ Tick
    \/ \E w \in Composers : ComposerStep(w)
    \/ \E w \in Publishers : PublisherStep(w)

Spec == Init /\ [][Next]_vars

\* ------------------------------------ the store operations called directly
\* The operations are module-level functions: a caller other than the two
\* handlers may call them with any doc_id, metadata and token.

ApiClaim(doc_id, bucket, filename, up) ==
    /\ LET r == claim_document(docs, up, doc_id, bucket, filename)
       IN /\ docs' = r.docs
          /\ claimWins' = [claimWins EXCEPT ![doc_id] = IF r.ret THEN @ + 1 ELSE @]
          /\ apiRet' = [op |-> "claim_document", doc_id |-> doc_id, token |-> NoToken,
                        ret |-> r.ret]
    /\ UNCHANGED <<now, topic, dlq, gbpPosts, postEnds, loopVars, composerVars, publisherVars,
                   genCalls, grants, releaseWins>>

ApiReleaseSuccess(doc_id, lock_token, up) ==
    /\ LET r == release_lock_success(docs, up, doc_id, lock_token, "localPost")
       IN /\ docs' = r.docs
          /\ releaseWins' = [releaseWins EXCEPT ![doc_id] = IF r.ret THEN @ + 1 ELSE @]
          /\ apiRet' = [op |-> "release_lock_success", doc_id |-> doc_id,
                        token |-> lock_token, ret |-> r.ret]
    /\ UNCHANGED <<now, topic, dlq, gbpPosts, postEnds, loopVars, composerVars, publisherVars,
                   claimWins, genCalls, grants>>

ApiReleaseFailure(doc_id, lock_token, up) ==
    /\ LET r == release_lock_failure(docs, up, doc_id, lock_token, "GBP_PERMANENT")
       IN /\ docs' = r.docs
          /\ releaseWins' = [releaseWins EXCEPT ![doc_id] = IF r.ret THEN @ + 1 ELSE @]
          /\ apiRet' = [op |-> "release_lock_failure", doc_id |-> doc_id,
                        token |-> lock_token, ret |-> r.ret]
    /\ UNCHANGED <<now, topic, dlq, gbpPosts, postEnds, loopVars, composerVars, publisherVars,
                   claimWins, genCalls, grants>>

\* the tokens a caller can present: those uuid4 has returned, and one it has not
ApiTokens == 1..uuid4

ApiNext ==
    \/ \E doc_id \in DocIds, bucket \in Buckets, filename \in Names, up \in BOOLEAN :
          ApiClaim(doc_id, bucket, filename, up)
    \/ \E doc_id \in DocIds, lock_token \in ApiTokens, up \in BOOLEAN :
          ApiReleaseSuccess(doc_id, lock_token, up)
    \/ \E doc_id \in DocIds, lock_token \in ApiTokens, up \in BOOLEAN :
          ApiReleaseFailure(doc_id, lock_token, up)

\* one instance of each handler, and the direct callers, within one clock tick
NextApi ==
    \/ ComposerStep(1)
    \/ PublisherStep(1)
    \/ ApiNext

SpecApi == Init /\ [][NextApi]_vars

\* ------------------------------------ the RecordStore operations on their own
\* Direct callers of every RecordStore operation, on records in any status the
\* operations can leave behind, with the clock running.
ApiAcquire(doc_id, up) ==
    /\ LET r == acquire_posting_lock(docs, up, doc_id, uuid4, now)
       IN /\ docs' = r.docs
          /\ grants' = [grants EXCEPT ![doc_id] =
                           IF r.ret = NoToken THEN @
                           ELSE Append(@, [token |-> r.ret, at |-> now])]
          /\ apiRet' = [op |-> "acquire_posting_lock", doc_id |-> doc_id,
                        token |-> r.ret, ret |-> r.ret # NoToken]
    /\ UNCHANGED <<now, topic, dlq, gbpPosts, postEnds, loopVars, composerVars, publisherVars,
                   claimWins, genCalls, releaseWins>>

\* the status writes of process_upload
StatusWrites ==
    {[status |-> "GENERATING", extra_fields |-> NoExtra],
     [status |-> "QUEUED", extra_fields |-> [draft |-> Draft, image_url |-> SignedUrl]],
     [status |-> "FAILED", extra_fields |-> [failure_reason |-> "EXCEPTION"]]}

ApiUpdateStatus(doc_id, wr, up) ==
    /\ docs' = update_status(docs, up, doc_id, wr.status, wr.extra_fields)
    /\ apiRet' = [op |-> "update_status", doc_id |-> doc_id, token |-> NoToken, ret |-> up]
    /\ UNCHANGED <<now, topic, dlq, gbpPosts, postEnds, loopVars, composerVars, publisherVars,
                   claimWins, genCalls, grants, releaseWins>>

\* the record the direct callers work on
StoreDoc == make_doc_id("bkt", "cake.jpg", "1")

NextStore ==
    \/ Tick
    \/ \E up \in BOOLEAN : ApiClaim(StoreDoc, "bkt", "cake.jpg", up)
    \/ \E up \in BOOLEAN :
          Len(grants[StoreDoc]) < MaxGrants /\ ApiAcquire(StoreDoc, up)
    \/ \E wr \in StatusWrites, up \in BOOLEAN : ApiUpdateStatus(StoreDoc, wr, up)
    \/ \E lock_token \in ApiTokens, up \in BOOLEAN :
          ApiReleaseSuccess(StoreDoc, lock_token, up)
    \/ \E lock_token \in ApiTokens, up \in BOOLEAN :
          ApiReleaseFailure(StoreDoc, lock_token, up)

SpecStore == Init /\ [][NextStore]_vars

\* ------------------------------------- the pipeline with a fair scheduler
\* Time has no end: once the clock has reached the last tick the model counts,
\* a further tick ages every lockedAt instead (an age of the whole clock range
\* is at least LOCK_TTL_SECONDS and stays there).
Rebase ==
    /\ now + TickSeconds > MaxTicks * TickSeconds
    /\ docs' = [i \in DocIds |->
                   IF docs[i].locked_at = NoTime THEN docs[i]
                   ELSE [docs[i] EXCEPT !.locked_at =
                            IF @ >= TickSeconds THEN @ - TickSeconds ELSE 0]]
    /\ UNCHANGED <<now, topic, dlq, gbpPosts, postEnds, loopVars, composerVars, publisherVars,
                   historyVars, apiRet>>

\* Pub/Sub delivers a message again until a delivery of it is acknowledged
Redeliver(w, doc_id) ==
    /\ topic[doc_id] = "pending"
    /\ P_Receive(w, doc_id, TRUE)

\* the outcomes of the publishing call that are not a transient failure
SettledOutcomes ==
    {o \in GbpOutcomes :
        \/ o.kind = "config"
        \/ o.kind = "http" /\ o.status_code \notin RETRYABLE_STATUS
        \/ o.kind = "Exception" /\ classify_error(o.error) = "PERMANENT"}

\* the store answers every call; workers can be killed and the publishing
\* call can fail in every way
AcquireLive(w) ==
    /\ ppc[w] = "acquire"
    /\ Len(grants[pdoc[w]]) < MaxGrants
    /\ P_Acquire(w, TRUE)

PublisherStepLive(w) ==
    \/ \E doc_id \in DocIds : Redeliver(w, doc_id)
    \/ AcquireLive(w)
    \/ \E o \in GbpOutcomes : P_Post(w, o)
    \/ P_ReleaseSuccess(w, TRUE)
    \/ P_ReleaseFailure(w, TRUE)
    \/ \E ok \in BOOLEAN : P_Dlq(w, ok)
    \/ P_Kill(w)

NextLive ==
    \/ Tick
    \/ Rebase
    \/ \E w \in Composers : ComposerStep(w)
    \/ \E w \in Publishers : PublisherStepLive(w)

\* at-least-once delivery, a running clock, handlers that run on unless
\* killed, and a publishing call that does not fail transiently forever
Fairness ==
    /\ WF_vars(Tick \/ Rebase)
    /\ \A w \in Publishers :
          /\ SF_vars(\E doc_id \in DocIds : Redeliver(w, doc_id))
          /\ SF_vars(AcquireLive(w))
          /\ SF_vars(\E o \in SettledOutcomes : P_Post(w, o))
          /\ SF_vars(P_ReleaseSuccess(w, TRUE))
          /\ SF_vars(P_ReleaseFailure(w, TRUE))
          /\ SF_vars(\E ok \in BOOLEAN : P_Dlq(w, ok))

SpecLive == Init /\ [][NextLive]_vars /\ Fairness

\* ------------------------------------ Composer: uploads and their doc_ids
\* One Composer handling uploads of two object names, each in two generations.
\* Object names may contain ":"; bucket names and generation numbers do not.
IdBuckets == {"bkt"}
IdNames == {"cake.jpg", "1:cake.jpg"}
IdGenerations == {"1", "2"}
IdEvents == [bucket : IdBuckets, name : IdNames, generation : IdGenerations,
             contentType : {"image/jpeg"}]
IdDocIds == {make_doc_id(e.bucket, e.name, e.generation) : e \in IdEvents}

InitId ==
    /\ docs = [i \in IdDocIds |-> NoDoc]
    /\ now = 0
    /\ topic = [i \in IdDocIds |-> "none"]
    /\ dlq = {}
    /\ gbpPosts = [i \in IdDocIds |-> 0]
    /\ postEnds = [i \in IdDocIds |-> {}]
    /\ cpc = [w \in Composers |-> "idle"]
    /\ cev = [w \in Composers |-> NoEvent]
    /\ ppc = [w \in Publishers |-> "idle"]
    /\ pdoc = [w \in Publishers |-> Null]
    /\ ptoken = [w \in Publishers |-> NoToken]
    /\ claimWins = [i \in IdDocIds |-> 0]
    /\ genCalls = [i \in IdDocIds |-> 0]
    /\ grants = [i \in IdDocIds |-> <<>>]
    /\ releaseWins = [i \in IdDocIds |-> 0]
    /\ apiRet = NoCall
    /\ gpc = "idle"
    /\ attempt = 0
    /\ prompt = <<>>
    /\ gret = <<"None">>
    /\ gcalls = 0
    /\ rounds = <<>>
    /\ parsed = [caption |-> <<"None">>, word_count |-> 0, contains_price |-> FALSE]

NextId ==
    \/ \E e \in IdEvents, up \in BOOLEAN : C_Receive(1, e, up)
    \/ C_Skip(1)
    \/ \E up \in BOOLEAN : C_MarkGenerating(1, up)
    \/ \E draft \in {Draft, Null} : C_Generate(1, draft)
    \/ \E up \in BOOLEAN : C_FailBlocked(1, up)
    \/ \E ok \in BOOLEAN : C_Sign(1, ok)
    \/ \E up \in BOOLEAN : C_Queue(1, up)
    \/ \E ok \in BOOLEAN : C_Publish(1, ok)
    \/ \E up \in BOOLEAN : C_FailExc(1, up)
    \/ \E ok \in BOOLEAN : C_Dlq(1, ok)

SpecId == InitId /\ [][NextId]_vars

\* ------------------------------- Composer: the generation loop on its own
\* A caption is the sequence of its words (caption.split()).
WordCounts == {0, 4, 5, 40, 41}
Caption(n, priced) == [k \in 1..n |-> IF priced /\ k = 1 THEN "$5" ELSE "crumb"]
Captions == {Caption(n, priced) : n \in WordCounts, priced \in BOOLEAN}

\* None where a caption, or a decoded candidate, is expected
NoCaption == <<"None">>
NoCandidate == [caption |-> NoCaption, word_count |-> 0, contains_price |-> FALSE]

\* the JSON objects the generator returns under CAPTION_SCHEMA
Candidates ==
    UNION {{[caption |-> c, word_count |-> n, contains_price |-> b] :
               n \in {Len(c), 12}, b \in BOOLEAN} : c \in Captions}

\* what one round of the loop meets: generate_content raises, the text is not
\* JSON, or the text decodes to a candidate
RoundOutcomes ==
    {[kind |-> "failure", parsed |-> NoCandidate],
     [kind |-> "decode", parsed |-> NoCandidate]}
    \cup {[kind |-> "json", parsed |-> c] : c \in Candidates}

\* price_pattern.search(caption_lower): "$5" is the word of the captions here
\* that the pattern matches
price_match(caption) == \E k \in DOMAIN caption : caption[k] = "$5"

\* a validator that takes the word count from the candidate's own field
sentinel_check_trusts_word_count(p) ==
    LET caption == p.caption
        contains_price == p.contains_price
        actual_words == p.word_count
    IN IF caption = <<>> THEN [passed |-> FALSE, reason |-> "EMPTY_CAPTION"]
       ELSE IF contains_price THEN [passed |-> FALSE, reason |-> "PRICE_SELF_REPORTED"]
       ELSE IF actual_words > 40 THEN [passed |-> FALSE, reason |-> "TOO_LONG"]
       ELSE IF actual_words < 5 THEN [passed |-> FALSE, reason |-> "TOO_SHORT"]
       ELSE IF price_match(caption) THEN [passed |-> FALSE, reason |-> "PRICE_DETECTED"]
       ELSE [passed |-> TRUE, reason |-> "APPROVED"]

\* a validator without the fast reject on the self-reported price flag
sentinel_check_ignores_self_report(p) ==
    LET caption == p.caption
        actual_words == Len(caption)
    IN IF caption = <<>> THEN [passed |-> FALSE, reason |-> "EMPTY_CAPTION"]
       ELSE IF actual_words > 40 THEN [passed |-> FALSE, reason |-> "TOO_LONG"]
       ELSE IF actual_words < 5 THEN [passed |-> FALSE, reason |-> "TOO_SHORT"]
       ELSE IF price_match(caption) THEN [passed |-> FALSE, reason |-> "PRICE_DETECTED"]
       ELSE [passed |-> TRUE, reason |-> "APPROVED"]

sentinel_check(p) ==
    LET caption == p.caption
        contains_price == p.contains_price
        actual_words == Len(caption)
    IN IF caption = <<>> THEN [passed |-> FALSE, reason |-> "EMPTY_CAPTION"]
       ELSE IF contains_price THEN [passed |-> FALSE, reason |-> "PRICE_SELF_REPORTED"]
       ELSE IF actual_words > 40 THEN [passed |-> FALSE, reason |-> "TOO_LONG"]
       ELSE IF actual_words < 5 THEN [passed |-> FALSE, reason |-> "TOO_SHORT"]
       ELSE IF price_match(caption) THEN [passed |-> FALSE, reason |-> "PRICE_DETECTED"]
       ELSE [passed |-> TRUE, reason |-> "APPROVED"]

\* process_upload calls generate_with_react with a filename that passed its
\* MIME gate
LoopFiles == {f \in Names : get_mime_type(f) # Null}

\* lines 286-293: the call, up to the loop
G_Start(filename) ==
    /\ gpc = "idle"
    /\ IF get_mime_type(filename) = Null
       THEN gpc' = "done"
       ELSE gpc' = "loop"
    /\ attempt' = 0
    /\ prompt' = <<>>
    /\ gret' = NoCaption
    /\ gcalls' = 0
    /\ rounds' = <<>>
    /\ parsed' = NoCandidate
    /\ UNCHANGED pipelineVars

\* a round in which a generator failure is retried without using up a round
G_Round_failure_uncounted(o) ==
    /\ gpc = "loop"
    /\ attempt < MAX_REACT_ROUNDS
    /\ gcalls' = gcalls + 1
    /\ IF o.kind = "failure"
       THEN /\ rounds' = Append(rounds, "failure")
            /\ UNCHANGED <<attempt, prompt, gret, gpc, parsed>>
       ELSE IF o.kind = "decode"
       THEN /\ rounds' = Append(rounds, "decode")
            /\ prompt' = Append(prompt, [critic |-> "not valid JSON", reason |-> Null,
                                         draft |-> NoCaption])
            /\ attempt' = attempt + 1
            /\ UNCHANGED <<gret, gpc, parsed>>
       ELSE LET check == sentinel_check(o.parsed)
            IN /\ parsed' = o.parsed
               /\ IF check.passed
                  THEN /\ rounds' = Append(rounds, "accepted")
                       /\ gret' = o.parsed.caption
                       /\ gpc' = "done"
                       /\ UNCHANGED <<prompt, attempt>>
                  ELSE /\ rounds' = Append(rounds, "rejected")
                       /\ prompt' = Append(prompt, [critic |-> "rejected",
                                                    reason |-> check.reason,
                                                    draft |-> o.parsed.caption])
                       /\ attempt' = attempt + 1
                       /\ UNCHANGED <<gret, gpc>>
    /\ UNCHANGED pipelineVars

\* a round in which a generator failure is folded into the prompt as a critique
G_Round_failure_critiqued(o) ==
    /\ gpc = "loop"
    /\ attempt < MAX_REACT_ROUNDS
    /\ gcalls' = gcalls + 1
    /\ IF o.kind = "failure"
       THEN /\ rounds' = Append(rounds, "failure")
            /\ prompt' = Append(prompt, [critic |-> "rejected", reason |-> "generation error",
                                         draft |-> NoCaption])
            /\ attempt' = attempt + 1
            /\ UNCHANGED <<gret, gpc, parsed>>
       ELSE IF o.kind = "decode"
       THEN /\ rounds' = Append(rounds, "decode")
            /\ prompt' = Append(prompt, [critic |-> "not valid JSON", reason |-> Null,
                                         draft |-> NoCaption])
            /\ attempt' = attempt + 1
            /\ UNCHANGED <<gret, gpc, parsed>>
       ELSE LET check == sentinel_check(o.parsed)
            IN /\ parsed' = o.parsed
               /\ IF check.passed
                  THEN /\ rounds' = Append(rounds, "accepted")
                       /\ gret' = o.parsed.caption
                       /\ gpc' = "done"
                       /\ UNCHANGED <<prompt, attempt>>
                  ELSE /\ rounds' = Append(rounds, "rejected")
                       /\ prompt' = Append(prompt, [critic |-> "rejected",
                                                    reason |-> check.reason,
                                                    draft |-> o.parsed.caption])
                       /\ attempt' = attempt + 1
                       /\ UNCHANGED <<gret, gpc>>
    /\ UNCHANGED pipelineVars

\* lines 312-343: one round
G_Round(o) ==
    /\ gpc = "loop"
    /\ attempt < MAX_REACT_ROUNDS
    /\ gcalls' = gcalls + 1
    /\ IF o.kind = "failure"
       THEN /\ rounds' = Append(rounds, "failure")
            /\ attempt' = attempt + 1
            /\ UNCHANGED <<prompt, gret, gpc, parsed>>
       ELSE IF o.kind = "decode"
       THEN /\ rounds' = Append(rounds, "decode")
            /\ prompt' = Append(prompt, [critic |-> "not valid JSON", reason |-> Null,
                                         draft |-> NoCaption])
            /\ attempt' = attempt + 1
            /\ UNCHANGED <<gret, gpc, parsed>>
       ELSE LET check == sentinel_check(o.parsed)
            IN /\ parsed' = o.parsed
               /\ IF check.passed
                  THEN /\ rounds' = Append(rounds, "accepted")
                       /\ gret' = o.parsed.caption
                       /\ gpc' = "done"
                       /\ UNCHANGED <<prompt, attempt>>
                  ELSE /\ rounds' = Append(rounds, "rejected")
                       /\ prompt' = Append(prompt, [critic |-> "rejected",
                                                    reason |-> check.reason,
                                                    draft |-> o.parsed.caption])
                       /\ attempt' = attempt + 1
                       /\ UNCHANGED <<gret, gpc>>
    /\ UNCHANGED pipelineVars

\* line 345: every round is used up
G_Return ==
    /\ gpc = "loop"
    /\ attempt = MAX_REACT_ROUNDS
    /\ gret' = NoCaption
    /\ gpc' = "done"
    /\ UNCHANGED <<attempt, prompt, gcalls, rounds, parsed>>
    /\ UNCHANGED pipelineVars

\* the next call
G_Again ==
    /\ gpc = "done"
    /\ gpc' = "idle"
    /\ UNCHANGED <<attempt, prompt, gret, gcalls, rounds, parsed>>
    /\ UNCHANGED pipelineVars

NextGen ==
    \/ \E filename \in LoopFiles : G_Start(filename)
    \/ \E o \in RoundOutcomes : G_Round(o)
    \/ G_Return
    \/ G_Again

SpecGen == Init /\ [][NextGen]_vars

\* ------------------------------------------------------------------ claims
ReleasePositions ==
    {"release_success", "release_dry", "release_permanent", "release_exception"}

\* C1: for every task record, over any number of deliveries of its pointer and
\* any interleaving of Publisher workers, the publishing platform accepts the
\* external publishing call at most once.
C1_PublishedAtMostOnce == \A i \in DocIds : gbpPosts[i] <= 1

\* C2 as stated: whenever a claim(id, meta) call has returned, exactly one
\* claim call for that id has returned true.
C2_ExactlyOneClaimReturnsTrue ==
    \A i \in DocIds :
        (\/ apiRet.op = "claim_document" /\ apiRet.doc_id = i
         \/ \E w \in Composers : /\ cpc[w] \in {"already_claimed", "mark_generating"}
                                 /\ DocIdOf(cev[w]) = i)
        => claimWins[i] = 1

\* what a claim(i, meta) call did from the state before to the state after,
\* given the value ret it returned
ClaimOutcome(i, bucket, filename, up, ret) ==
    IF up /\ ~docs[i].exists
    THEN /\ ret
         /\ docs' = [docs EXCEPT ![i] =
                        [NoDoc EXCEPT !.exists = TRUE, !.status = "RECEIVED",
                                      !.bucket = bucket, !.filename = filename]]
    ELSE /\ ~ret
         /\ docs' = docs

\* C2 (amended): for every id, over claim(id, meta) calls in any interleaving,
\* at most one call returns true; a call whose transaction does not fail and
\* that finds no record returns true and stores a Received record with its own
\* metadata; every other call (the record exists, or the transaction fails)
\* returns false and writes nothing; the record exists exactly when some call
\* has returned true, and its metadata stay those the winner wrote.
C2_AtMostOneClaimReturnsTrue ==
    /\ [](\A i \in DocIds : claimWins[i] <= 1 /\ (docs[i].exists <=> claimWins[i] = 1))
    /\ [][\A i \in DocIds, b \in Buckets, f \in Names, up \in BOOLEAN :
            ApiClaim(i, b, f, up) => ClaimOutcome(i, b, f, up, apiRet'.ret)]_vars
    /\ [][\A w \in Composers, e \in Events, up \in BOOLEAN :
            C_Receive(w, e, up) /\ get_mime_type(e.name) # Null
            => ClaimOutcome(DocIdOf(e), e.bucket, e.name, up,
                            cpc'[w] = "mark_generating")]_vars
    /\ [][\A i \in DocIds :
            docs[i].exists => /\ docs'[i].exists
                              /\ docs'[i].bucket = docs[i].bucket
                              /\ docs'[i].filename = docs[i].filename]_vars

\* a claim has lost against a winner that stored other metadata: the record
\* is the winner's
C2_Witness ==
    \E w \in Composers :
        /\ cpc[w] = "already_claimed"
        /\ claimWins[DocIdOf(cev[w])] = 1
        /\ docs[DocIdOf(cev[w])].status = "RECEIVED"
        /\ docs[DocIdOf(cev[w])].filename # cev[w].name
        /\ apiRet.op = "claim_document" /\ apiRet.ret

\* an acquireLock call of worker w returned a fresh token and took the lock
AcquireGranted(w) ==
    LET i == pdoc[w]
    IN /\ ptoken'[w] \notin IssuedTokens \cup {NoToken}
       /\ docs' = [docs EXCEPT ![i].status = "POSTING",
                               ![i].lock_token = ptoken'[w],
                               ![i].locked_at = now]
       /\ grants'[i] = Append(grants[i], [token |-> ptoken'[w], at |-> now])

\* an acquireLock call of worker w returned null and wrote nothing
AcquireDenied(w) ==
    /\ ptoken'[w] = NoToken
    /\ ppc'[w] = "idle"
    /\ docs' = docs
    /\ grants' = grants

LockUnexpired(i) ==
    /\ docs[i].status = "POSTING"
    /\ now - docs[i].locked_at < LOCK_TTL_SECONDS

LockExpired(i) ==
    /\ docs[i].status = "POSTING"
    /\ docs[i].lock_token # NoToken
    /\ now - docs[i].locked_at >= LOCK_TTL_SECONDS

\* C3 as stated: an acquireLock(id) call on a Queued record returns a token
\* (the first call wins), and every call made while the lock is held and
\* unexpired returns null.
C3_FirstAcquireReturnsToken ==
    [][\A w \in Publishers :
          (\E up \in BOOLEAN : P_Acquire(w, up))
          => /\ docs[pdoc[w]].status = "QUEUED" => AcquireGranted(w)
             /\ LockUnexpired(pdoc[w]) => AcquireDenied(w)]_vars

\* C3 (amended): for a Queued record, over acquireLock(id) calls in any
\* interleaving, at most one call returns a token: a call whose transaction
\* does not fail returns a fresh token and sets Posting, lockToken and
\* lockedAt; a call whose transaction fails returns null and writes nothing;
\* every call made while the lock is held and LOCK_TTL has not elapsed since
\* lockedAt returns null and writes nothing, so two tokens for one record are
\* never granted less than LOCK_TTL apart, and none after a release.
C3_AtMostOneAcquireReturnsToken ==
    /\ [][\A w \in Publishers :
            /\ P_Acquire(w, TRUE) /\ docs[pdoc[w]].status = "QUEUED" => AcquireGranted(w)
            /\ P_Acquire(w, FALSE) => AcquireDenied(w)
            /\ (\E up \in BOOLEAN : P_Acquire(w, up)) /\ LockUnexpired(pdoc[w])
               => AcquireDenied(w)]_vars
    /\ [](\A i \in DocIds : \A k, l \in DOMAIN grants[i] :
             k < l => grants[i][l].at - grants[i][k].at >= LOCK_TTL_SECONDS)
    /\ [][\A i \in DocIds : releaseWins[i] > 0 => grants'[i] = grants[i]]_vars

\* one worker holds the only token granted for a record whose lock has not
\* expired, and a second delivery of the pointer has been turned away
C3_Witness ==
    \E i \in DocIds, w \in Publishers :
        /\ LockUnexpired(i)
        /\ Len(grants[i]) = 1
        /\ ppc[w] = "post" /\ pdoc[w] = i /\ ptoken[w] = docs[i].lock_token
        /\ topic[i] = "acked"

\* C4 as stated: with the lock held and never released, an acquireLock(id) call
\* made when now - lockedAt >= LOCK_TTL returns a token different from the
\* earlier ones and rewrites lockToken and lockedAt, and one made when
\* now - lockedAt < LOCK_TTL returns null.
C4_ReclaimAfterTtl ==
    [][\A w \in Publishers :
          (\E up \in BOOLEAN : P_Acquire(w, up))
          => /\ LockExpired(pdoc[w])
                => AcquireGranted(w) /\ ptoken'[w] # docs[pdoc[w]].lock_token
             /\ LockUnexpired(pdoc[w]) => ptoken'[w] = NoToken]_vars

\* C4 (amended): with the lock held and never released, an acquireLock(id) call
\* made when now - lockedAt >= LOCK_TTL whose transaction does not fail returns
\* a token different from every earlier one and rewrites lockToken and
\* lockedAt; one whose transaction fails returns null and leaves the record as
\* it was; one made when now - lockedAt < LOCK_TTL returns null.
C4_ReclaimAfterTtlUnlessStoreFails ==
    [][\A w \in Publishers :
          /\ P_Acquire(w, TRUE) /\ LockExpired(pdoc[w])
             => /\ AcquireGranted(w)
                /\ ptoken'[w] # docs[pdoc[w]].lock_token
                /\ docs'[pdoc[w]].locked_at # docs[pdoc[w]].locked_at
          /\ P_Acquire(w, FALSE) /\ LockExpired(pdoc[w])
             => ptoken'[w] = NoToken /\ docs' = docs
          /\ (\E up \in BOOLEAN : P_Acquire(w, up)) /\ LockUnexpired(pdoc[w])
             => ptoken'[w] = NoToken /\ docs' = docs]_vars

\* an expired lock has been taken over: the record carries the second token
\* and the time of the second grant, and nobody has released
C4_Witness ==
    \E i \in DocIds :
        /\ Len(grants[i]) = 2
        /\ releaseWins[i] = 0
        /\ docs[i].status = "POSTING"
        /\ docs[i].lock_token = grants[i][2].token
        /\ docs[i].lock_token # grants[i][1].token
        /\ docs[i].locked_at = grants[i][2].at
        /\ grants[i][2].at >= grants[i][1].at + LOCK_TTL_SECONDS

\* a release call made directly, of either kind
ApiRelease(i, tok, up) == ApiReleaseSuccess(i, tok, up) \/ ApiReleaseFailure(i, tok, up)

\* a release call made by the handler instance w, of either kind
P_Release(w, up) == P_ReleaseSuccess(w, up) \/ P_ReleaseFailure(w, up)

\* C5: a release (success or failure) called with a token that differs from
\* the stored lockToken, including when the record has no lockToken or is
\* absent, returns false and leaves every field of the record unchanged.
C5_MismatchedReleaseRejected ==
    /\ [][\A i \in DocIds, tok \in ApiTokens, up \in BOOLEAN :
            ApiRelease(i, tok, up) /\ docs[i].lock_token # tok
            => ~apiRet'.ret /\ docs' = docs /\ releaseWins' = releaseWins]_vars
    /\ [][\A w \in Publishers, up \in BOOLEAN :
            P_Release(w, up) /\ docs[pdoc[w]].lock_token # ptoken[w]
            => docs' = docs /\ releaseWins' = releaseWins]_vars

\* a release has been called with a token other than the one the record has
\* carried since its only grant, and has returned false
C5_Witness ==
    \E i \in DocIds :
        /\ apiRet.op \in {"release_lock_success", "release_lock_failure"}
        /\ apiRet.doc_id = i
        /\ ~apiRet.ret
        /\ Len(grants[i]) = 1
        /\ docs[i].status = "POSTING"
        /\ docs[i].lock_token = grants[i][1].token
        /\ apiRet.token # docs[i].lock_token

\* C6: a successful release with the token acquireLock returned leaves the
\* record Posted (release success) or Failed (release failure) with lockToken
\* and lockedAt cleared; any later release with that token returns false and
\* changes nothing; at most one release call per record ever returns true.
C6_ReleaseAtMostOnce ==
    /\ [][\A i \in DocIds :
            releaseWins'[i] # releaseWins[i]
            => /\ docs[i].status = "POSTING"
               /\ \E k \in DOMAIN grants[i] : grants[i][k].token = docs[i].lock_token
               /\ docs'[i].status \in TERMINAL_STATUSES
               /\ docs'[i].lock_token = NoToken
               /\ docs'[i].locked_at = NoTime]_vars
    /\ [][\A i \in DocIds, tok \in ApiTokens :
            /\ ApiReleaseSuccess(i, tok, TRUE) /\ docs[i].lock_token = tok
               => apiRet'.ret /\ docs'[i].status = "POSTED"
            /\ ApiReleaseFailure(i, tok, TRUE) /\ docs[i].lock_token = tok
               => apiRet'.ret /\ docs'[i].status = "FAILED"]_vars
    /\ [](\A i \in DocIds : releaseWins[i] <= 1)
    /\ [][\A i \in DocIds, tok \in ApiTokens, up \in BOOLEAN :
            ApiRelease(i, tok, up) /\ releaseWins[i] > 0
            => ~apiRet'.ret /\ docs' = docs]_vars
    /\ [][\A w \in Publishers, up \in BOOLEAN :
            P_Release(w, up) /\ releaseWins[pdoc[w]] > 0 => docs' = docs]_vars

\* the token acquireLock returned has been released successfully, and a later
\* release with the same token has returned false
C6_Witness ==
    \E i \in DocIds :
        /\ releaseWins[i] = 1
        /\ Len(grants[i]) = 1
        /\ docs[i].status = "POSTED"
        /\ docs[i].lock_token = NoToken
        /\ apiRet.op \in {"release_lock_success", "release_lock_failure"}
        /\ apiRet.doc_id = i
        /\ apiRet.token = grants[i][1].token
        /\ ~apiRet.ret

\* C7: once a record's status is Posted or Failed, no operation changes its
\* status again.
C7_TerminalIsFinal ==
    [][\A i \in DocIds :
          docs[i].status \in TERMINAL_STATUSES => docs'[i].status = docs[i].status]_vars

\* a worker whose lock was taken over has had its failure release turned away
\* by a record another worker had already finished as Posted
C7_Witness ==
    \E w \in Publishers :
        /\ ppc[w] = "dlq_permanent"
        /\ docs[pdoc[w]].status = "POSTED"
        /\ Len(grants[pdoc[w]]) = 2

\* C8: in every reachable state lockToken is present exactly when the status
\* is Posting, and lockedAt is present exactly when lockToken is.
C8_LockFieldsIffPosting ==
    \A i \in DocIds :
        /\ docs[i].lock_token # NoToken <=> docs[i].status = "POSTING"
        /\ docs[i].locked_at # NoTime <=> docs[i].lock_token # NoToken

\* a record that was locked has been released as Failed and carries no lock
\* fields
C8_Witness ==
    \E i \in DocIds :
        /\ docs[i].status = "FAILED"
        /\ Len(grants[i]) >= 1
        /\ releaseWins[i] = 1
        /\ docs[i].lock_token = NoToken

\* C9: every step that takes a record from Posting to Posted or Failed is a
\* release by a caller presenting a token equal to the stored lockToken: a
\* worker whose lock was reclaimed cannot move the record to a terminal state.
C9_OnlyHolderFinishes ==
    [][\A i \in DocIds :
          docs[i].status = "POSTING" /\ docs'[i].status \in TERMINAL_STATUSES
          => \E w \in Publishers :
                /\ ppc[w] \in ReleasePositions
                /\ pdoc[w] = i
                /\ ptoken[w] = docs[i].lock_token
                /\ ppc'[w] # ppc[w]]_vars

\* a record whose lock was reclaimed has been finished while the worker that
\* lost the lock is still waiting to release with its old token
C9_Witness ==
    \E i \in DocIds, w \in Publishers :
        /\ docs[i].status \in TERMINAL_STATUSES
        /\ Len(grants[i]) = 2
        /\ releaseWins[i] = 1
        /\ ppc[w] \in ReleasePositions
        /\ pdoc[w] = i
        /\ ptoken[w] = grants[i][1].token

\* the instances of process_upload that are past the idempotency gate for i
PastGate(i) ==
    {w \in Composers : /\ cpc[w] \notin {"idle", "not_image", "already_claimed"}
                       /\ DocIdOf(cev[w]) = i}

\* C10: for every (bucket, name, generation), over any number of deliveries of
\* the upload notification, the generation loop is started at most once, and
\* a delivery whose claim did not return true makes no generator call, no
\* record write and no pointer emission.
C10_GenerateAtMostOnce ==
    /\ [](\A i \in DocIds : /\ genCalls[i] <= 1
                            /\ genCalls[i] <= claimWins[i]
                            /\ Cardinality(PastGate(i)) <= claimWins[i])
    /\ [][\A w \in Composers :
            /\ ComposerStep(w)
            /\ cpc[w] \in {"idle", "not_image", "already_claimed"}
            /\ cpc'[w] # "mark_generating"
            => UNCHANGED <<docs, topic, dlq, genCalls>>]_vars

\* the notification of an upload whose caption has been generated has been
\* delivered again, and the second delivery stopped at the gate
C10_Witness ==
    \E w \in Composers :
        /\ cpc[w] = "already_claimed"
        /\ claimWins[DocIdOf(cev[w])] = 1
        /\ genCalls[DocIdOf(cev[w])] = 1

\* the outcomes of the publishing call that post_to_gbp reports retryable
RetryableOutcomes ==
    {o \in GbpOutcomes : \/ o.kind \in {"timeout", "connection"}
                         \/ o.kind = "http" /\ o.status_code \in {429, 500, 502, 503, 504}}

\* the handler of w ends a retryable publishing failure: no record write, no
\* terminal status, nothing on dead-letter, no acknowledgement of the pointer
RetryableLeavesLock(w) ==
    /\ docs' = docs
    /\ dlq' = dlq
    /\ topic' = topic
    /\ gbpPosts' = gbpPosts
    /\ releaseWins' = releaseWins
    /\ ppc'[w] = "idle"
    /\ ptoken[w] = docs[pdoc[w]].lock_token
       => /\ docs'[pdoc[w]].status = "POSTING"
          /\ docs'[pdoc[w]].lock_token = ptoken[w]
          /\ docs'[pdoc[w]].locked_at = docs[pdoc[w]].locked_at

\* the handler of w releases with success while its token is the stored one
ReleasesAsHolder(w, up) ==
    /\ P_ReleaseSuccess(w, up)
    /\ ptoken[w] # NoToken
    /\ ptoken[w] = docs[pdoc[w]].lock_token

C12_PostingEventuallyResolved ==
    \A i \in DocIds :
        (docs[i].status = "POSTING")
        ~> (docs[i].status \in TERMINAL_STATUSES \/ Len(grants[i]) >= MaxGrants)

\* C13: every failure raised while the Publisher performs the publishing call
\* whose message contains a permanent marker is handled as Permanent (the
\* handler goes on to release the lock as Failed and to forward the failure to
\* dead-letter, and does not request redelivery); every failure without such a
\* marker is handled as Retryable (the handler raises and writes nothing).
C13_RaisedFailuresClassified ==
    [][\A w \in Publishers, o \in GbpOutcomes :
          P_Post(w, o) /\ o.kind \in {"RuntimeError", "Exception"}
          => IF MarkersIn(o.error) \cap permanent_markers # {}
             THEN /\ ppc'[w] = "release_exception"
                  /\ pdoc'[w] = pdoc[w]
                  /\ ptoken'[w] = ptoken[w]
             ELSE /\ ppc'[w] = "idle"
                  /\ topic' = topic
                  /\ docs' = docs
                  /\ dlq' = dlq]_vars

\* C14: for every response of the publishing platform post_to_gbp reports
\* retryable exactly when the status code is 429, 500, 502, 503 or 504; every
\* other non-success status code is reported permanent (retryable = false); a
\* request timeout and a connection failure are both reported retryable, with
\* the same classification.
C14_RetryableStatusCodes ==
    [][\A w \in Publishers, o \in GbpOutcomes :
          P_Post(w, o)
          => LET result == post_to_gbp(o)
             IN /\ o.kind = "http"
                   => /\ result.retryable <=> o.status_code \in {429, 500, 502, 503, 504}
                      /\ result.success <=> o.status_code = 200
                      /\ result.status_code = o.status_code
                /\ o.kind \in {"timeout", "connection"}
                   => /\ result.retryable /\ ~result.success
                      /\ result = post_to_gbp([o EXCEPT !.kind = "timeout"])
                      /\ result = post_to_gbp([o EXCEPT !.kind = "connection"])
                /\ o.kind \in {"http", "timeout", "connection"}
                   => ppc'[w] = IF result.success THEN "release_success"
                                ELSE IF result.retryable THEN "idle"
                                ELSE "release_permanent"]_vars

\* for one record the publishing call has returned a retryable failure and,
\* after the redelivery, a permanent one that was recorded as Failed
C14_Witness ==
    \E i \in DocIds :
        /\ {"retryable", "permanent"} \subseteq postEnds[i]
        /\ docs[i].status = "FAILED"

BlockedMessage(i) ==
    [doc_id |-> i, source |-> "bakers-agent-v1", reason |-> "SENTINEL_BLOCKED_ALL_ATTEMPTS"]

\* the generation loop of record i returned null
Blocked(i) ==
    \/ \E w \in Composers : /\ cpc[w] \in {"fail_blocked", "dlq_blocked"}
                            /\ DocIdOf(cev[w]) = i
    \/ docs[i].failure_reason = "SENTINEL_BLOCKED_ALL_ATTEMPTS"
    \/ BlockedMessage(i) \in dlq

\* C15 as stated: when the generation loop returns null the Composer sets the
\* record to Failed with a failure reason, forwards the failure to
\* dead-letter, emits no pointer and returns normally; a later redelivery of
\* the event performs no further generation.
C15_BlockedIsFailedAndForwarded ==
    /\ [][\A w \in Composers :
            (\E up \in BOOLEAN : C_FailBlocked(w, up))
            => /\ docs'[DocIdOf(cev[w])].status = "FAILED"
               /\ docs'[DocIdOf(cev[w])].failure_reason # Null]_vars
    /\ [][\A w \in Composers :
            (\E ok \in BOOLEAN : C_Dlq(w, ok)) /\ cpc[w] = "dlq_blocked"
            => BlockedMessage(DocIdOf(cev[w])) \in dlq']_vars
    /\ [](\A i \in DocIds : Blocked(i) => topic[i] = "none" /\ genCalls[i] = 1)

\* C15 (amended): when the generation loop returns null the Composer calls the
\* status update to Failed with a failure reason and the dead-letter publish,
\* each of which is logged and skipped when it fails (the record then keeps
\* its earlier status, or nothing reaches dead-letter); it emits no pointer and
\* returns normally, and a later redelivery of the event performs no further
\* generation.
C15_BlockedIsFailedUnlessWritesFail ==
    /\ [][\A w \in Composers : C_Generate(w, Null) => cpc'[w] = "fail_blocked"]_vars
    /\ [][\A w \in Composers :
            LET i == DocIdOf(cev[w])
            IN /\ C_FailBlocked(w, TRUE)
                  => /\ docs'[i].status = "FAILED"
                     /\ docs'[i].failure_reason = "SENTINEL_BLOCKED_ALL_ATTEMPTS"
               /\ C_FailBlocked(w, FALSE) => docs' = docs
               /\ (\E up \in BOOLEAN : C_FailBlocked(w, up))
                  => cpc'[w] = "dlq_blocked" /\ topic' = topic /\ dlq' = dlq]_vars
    /\ [][\A w \in Composers :
            LET i == DocIdOf(cev[w])
            IN /\ C_Dlq(w, TRUE) /\ cpc[w] = "dlq_blocked"
                  => dlq' = dlq \cup {BlockedMessage(i)}
               /\ C_Dlq(w, FALSE) /\ cpc[w] = "dlq_blocked" => dlq' = dlq
               /\ (\E ok \in BOOLEAN : C_Dlq(w, ok)) /\ cpc[w] = "dlq_blocked"
                  => cpc'[w] = "idle" /\ topic' = topic /\ docs' = docs]_vars
    /\ [](\A i \in DocIds : Blocked(i) => topic[i] = "none" /\ genCalls[i] = 1)

\* a record whose generation returned null is Failed with the reason, the
\* failure is on dead-letter, no pointer exists, and a redelivery of the event
\* has stopped at the gate without generating again
C15_Witness ==
    \E i \in DocIds, w \in Composers :
        /\ docs[i].status = "FAILED"
        /\ docs[i].failure_reason = "SENTINEL_BLOCKED_ALL_ATTEMPTS"
        /\ BlockedMessage(i) \in dlq
        /\ topic[i] = "none"
        /\ genCalls[i] = 1
        /\ cpc[w] = "already_claimed" /\ DocIdOf(cev[w]) = i

\* the rounds that ended with an accepted candidate
AcceptedRounds == {k \in DOMAIN rounds : rounds[k] = "accepted"}

\* C16: for every sequence of per-round outcomes (accepted, rejected, decode
\* failure, generator failure) the generation loop returns the candidate of
\* the first accepted round among the first N = 3 rounds after exactly that
\* many generator calls, and otherwise returns null after exactly N generator
\* calls; an always-accepting Validator gives one call, an always-rejecting
\* one gives N calls and null.
C16_LoopReturnsFirstAccepted ==
    /\ gcalls = Len(rounds)
    /\ gcalls <= MAX_REACT_ROUNDS
    /\ \A k \in AcceptedRounds : k = Len(rounds) /\ gpc \in {"done", "idle"}
    /\ gpc = "done"
       => IF AcceptedRounds # {}
          THEN /\ gret = parsed.caption
               /\ gret # NoCaption
               /\ gcalls = CHOOSE k \in AcceptedRounds : \A j \in AcceptedRounds : k <= j
          ELSE /\ gret = NoCaption
               /\ gcalls = MAX_REACT_ROUNDS
    /\ gpc = "done" /\ rounds = <<"accepted">> => gcalls = 1
    /\ gpc = "done" /\ rounds = <<"rejected", "rejected", "rejected">>
       => gcalls = MAX_REACT_ROUNDS /\ gret = NoCaption

\* the loop has returned the candidate of its third round, after a decode
\* failure and a rejection
C16_Witness ==
    /\ gpc = "done"
    /\ rounds = <<"decode", "rejected", "accepted">>
    /\ gcalls = 3
    /\ gret = parsed.caption

\* the round that has just run validated candidate p
Validated(p) == \E o \in RoundOutcomes : o.kind = "json" /\ o.parsed = p /\ G_Round(o)

\* C17: the Validator rejects every candidate whose caption text has more
\* than 40 words, whatever the candidate's own word_count and contains_price
\* fields say: the round that validated it does not return, and appends a
\* critique with a rejection reason.
C17_TooLongRejected ==
    [][\A p \in Candidates :
         Validated(p) /\ Len(p.caption) > 40
         => /\ gpc' = "loop"
            /\ gret' = NoCaption
            /\ rounds' = Append(rounds, "rejected")
            /\ Len(prompt') = Len(prompt) + 1
            /\ prompt'[Len(prompt')].reason \in {"TOO_LONG", "PRICE_SELF_REPORTED"}]_vars

\* a 41-word caption whose own fields report 12 words and no price has been
\* rejected as too long
C17_Witness ==
    /\ Len(parsed.caption) = 41
    /\ parsed.word_count = 12
    /\ ~parsed.contains_price
    /\ rounds # <<>>
    /\ rounds[Len(rounds)] = "rejected"
    /\ prompt # <<>>
    /\ prompt[Len(prompt)] = [critic |-> "rejected", reason |-> "TOO_LONG",
                              draft |-> parsed.caption]

\* the Validator's recomputation from the caption text alone
independent_check(p) ==
    /\ p.caption # <<>>
    /\ Len(p.caption) <= 40
    /\ Len(p.caption) >= 5
    /\ ~price_match(p.caption)

\* a self-reported field differs from what the caption text gives
Disagrees(p) ==
    \/ p.word_count # Len(p.caption)
    \/ p.contains_price # price_match(p.caption)

\* C18: whenever a candidate's self-reported fields disagree with the
\* recomputation from the caption text, the round accepts the candidate
\* exactly when the independent check alone accepts it.
C18_IndependentCheckAlone ==
    [][\A p \in Candidates :
         Validated(p) /\ Disagrees(p)
         => (gpc' = "done" <=> independent_check(p))]_vars

\* C18, amended: a candidate is accepted exactly when the independent check
\* accepts it and its self-reported contains_price is false; a self-reported
\* contains_price of true rejects the candidate even if the text has no
\* price, and the self-reported word_count never changes the result.
C18_IndependentCheckAndPriceFlag ==
    [][\A p \in Candidates :
         Validated(p)
         => /\ gpc' = "done" <=> (independent_check(p) /\ ~p.contains_price)
            /\ gpc' = "done" => gret' = p.caption
            /\ \A n \in {Len(p.caption), 12} :
                 sentinel_check([p EXCEPT !.word_count = n]) = sentinel_check(p)]_vars

\* one call has rejected a clean caption for its self-reported price flag,
\* then a priced caption whose flag reported no price
C18_Witness ==
    /\ Len(prompt) = 2
    /\ prompt[1].reason = "PRICE_SELF_REPORTED"
    /\ independent_check([caption |-> prompt[1].draft, word_count |-> 0,
                          contains_price |-> FALSE])
    /\ prompt[2].reason = "PRICE_DETECTED"
    /\ ~parsed.contains_price
    /\ parsed.caption = prompt[2].draft

\* distinct (container, name, generation) triples have distinct ids
DocIdsDistinct ==
    \A e1, e2 \in IdEvents :
        e1 # e2 => make_doc_id(e1.bucket, e1.name, e1.generation)
                   # make_doc_id(e2.bucket, e2.name, e2.generation)

\* a record was created for the triple of its id: the record the Composer
\* works on past the gate carries the container and name of its event
RecordOfItsEvent ==
    cpc[1] \notin {"idle", "not_image", "already_claimed"}
    => /\ docs[DocIdOf(cev[1])].exists
       /\ docs[DocIdOf(cev[1])].bucket = cev[1].bucket
       /\ docs[DocIdOf(cev[1])].filename = cev[1].name

\* a notification for an object whose other generation already has a record
OtherGeneration(e) ==
    \E e2 \in IdEvents :
        /\ e2.bucket = e.bucket /\ e2.name = e.name /\ e2.generation # e.generation
        /\ docs[make_doc_id(e2.bucket, e2.name, e2.generation)].exists

LifecycleSteps ==
    {<<Null, "RECEIVED">>, <<"RECEIVED", "GENERATING">>, <<"GENERATING", "QUEUED">>,
     <<"QUEUED", "POSTING">>, <<"POSTING", "POSTED">>}

\* statuses from which a record may become Failed
Unfinished == {"RECEIVED", "GENERATING", "QUEUED", "POSTING"}

C21_QueuedHasDraftAndAsset ==
    /\ [](\A i \in DocIds :
             /\ docs[i].status \in {"QUEUED", "POSTING", "POSTED"}
                => docs[i].draft # Null /\ docs[i].image_url # Null
             /\ genCalls[i] <= 1)
    /\ [][/\ \A i \in DocIds :
                docs'[i].status = "QUEUED" /\ docs[i].status # "QUEUED"
                => /\ \E w \in Composers : C_Queue(w, TRUE) /\ DocIdOf(cev[w]) = i
                   /\ docs[i].draft = Null /\ docs[i].image_url = Null
                   /\ docs'[i].draft = Draft /\ docs'[i].image_url = SignedUrl
          /\ \A w \in Composers :
                /\ C_Sign(w, FALSE)
                   => /\ cpc'[w] = "fail_exc"
                      /\ docs' = docs
                      /\ docs[DocIdOf(cev[w])].status \in {"RECEIVED", "GENERATING"}
                /\ cpc'[w] = "queue" /\ cpc[w] # "queue" => C_Sign(w, TRUE)
                /\ cpc[w] \in {"fail_exc", "dlq_exc"} => cpc'[w] # "queue"]_vars

\* a record was queued with its draft and signed URL and is being posted
C21_Witness ==
    \E i \in DocIds :
        /\ docs[i].status = "POSTING"
        /\ docs[i].draft = Draft
        /\ docs[i].image_url = SignedUrl
        /\ genCalls[i] = 1

\* what the no-op cases leave alone: the records, the generator calls, the
\* publishing calls and the dead-letter channel
NoOpFrame == UNCHANGED <<docs, genCalls, gbpPosts, postEnds, dlq, grants, releaseWins>>

\* the lock of record i is unavailable: the record is terminal, is held by a
\* live lock, or is not Queued yet
LockUnavailable(i) ==
    \/ docs[i].status \in TERMINAL_STATUSES
    \/ docs[i].status = "POSTING" /\ now - docs[i].locked_at < LOCK_TTL_SECONDS
    \/ docs[i].status \in {"RECEIVED", "GENERATING"}

\* C22: in the no-op cases the handler returns normally, so the delivery is
\* acknowledged, without a generator call, a publishing call or a dead-letter
\* send, and leaves the record unchanged.  Composer: the id is already
\* claimed.  Publisher: acquire_posting_lock returns no token because the
\* record is terminal, held by a live lock or not Queued yet.
C22_NoOpCasesDoNothing ==
    [][/\ \A w \in Composers :
             /\ \A e \in Events :
                   /\ C_Receive(w, e, TRUE)
                   /\ get_mime_type(e.name) # Null
                   /\ docs[DocIdOf(e)].exists
                   => cpc'[w] = "already_claimed" /\ NoOpFrame /\ UNCHANGED topic
             /\ cpc[w] = "already_claimed" /\ ComposerStep(w)
                => /\ cpc'[w] = "idle"
                   /\ cev'[w] = NoEvent
                   /\ NoOpFrame /\ UNCHANGED topic
       /\ \A w \in Publishers :
             P_Acquire(w, TRUE) /\ LockUnavailable(pdoc[w])
             => /\ ppc'[w] = "idle"
                /\ topic'[pdoc[w]] = "acked"
                /\ NoOpFrame]_vars

\* a delivery was acknowledged without a lock while another worker holds the
\* record's only lock and is posting, and a Composer has met the id claimed
C22_Witness ==
    \E i \in DocIds, w \in Publishers, c \in Composers :
        /\ topic[i] = "acked"
        /\ docs[i].status = "POSTING"
        /\ Len(grants[i]) = 1
        /\ ppc[w] = "post" /\ pdoc[w] = i
        /\ cpc[c] = "already_claimed" /\ DocIdOf(cev[c]) = i
        /\ dlq = {}

\* C23: a failed publish to the dead-letter channel does not propagate out of
\* send_to_dlq of either stage: the handler completes as it does after a
\* successful forward (the Composer returns, the Publisher returns and its
\* delivery is acknowledged), and neither the forward nor its failure changes
\* a record.
C23_DlqFailureSwallowed ==
    [][/\ \A w \in Composers, ok \in BOOLEAN :
             C_Dlq(w, ok)
             => /\ cpc' = [cpc EXCEPT ![w] = "idle"]
                /\ cev' = [cev EXCEPT ![w] = NoEvent]
                /\ UNCHANGED <<docs, topic, publisherVars>>
                /\ ~ok => dlq' = dlq
       /\ \A w \in Publishers, ok \in BOOLEAN :
             P_Dlq(w, ok)
             => /\ ppc' = [ppc EXCEPT ![w] = "idle"]
                /\ pdoc' = [pdoc EXCEPT ![w] = Null]
                /\ topic' = [topic EXCEPT ![pdoc[w]] = "acked"]
                /\ UNCHANGED <<docs, composerVars>>
                /\ ~ok => dlq' = dlq]_vars

\* the Publisher released a record as Failed after a permanent failure, its
\* forward to the dead-letter channel failed, and the delivery is acknowledged
C23_Witness ==
    \E i \in DocIds :
        /\ docs[i].status = "FAILED"
        /\ docs[i].failure_reason = "GBP_PERMANENT"
        /\ releaseWins[i] = 1
        /\ topic[i] = "acked"
        /\ dlq = {}
        /\ \A w \in Publishers : ppc[w] = "idle"

\* the events whose object name does not give an allowed MIME type
NonContentNames == {e \in Events : guess_type(e.name) \notin ALLOWED_MIME_TYPES}

\* the events whose object was uploaded with a contentType that is not allowed
NonContentObjects == {e \in Events : e.contentType \notin ALLOWED_MIME_TYPES}

\* C24: a creation event whose object is not of an allowed MIME type causes no
\* processing: the handler stops at the gate without claiming an id, creating
\* or changing a record, calling the generator or emitting a message.
C24_NonContentObjectIgnored ==
    [][\A w \in Composers, e \in NonContentObjects, up \in BOOLEAN :
          C_Receive(w, e, up)
          => /\ cpc'[w] = "not_image"
             /\ UNCHANGED <<docs, claimWins, genCalls, topic, dlq>>]_vars

\* C24, amended: the same for an event whose object name does not give an
\* allowed MIME type; the type is guessed from the name, and the contentType
\* of the object plays no part in the gate, so an object that is not an image
\* but is named like one is claimed and processed.
C24_NonContentNameIgnored ==
    /\ [](\A e \in NonContentNames :
             /\ ~docs[DocIdOf(e)].exists
             /\ claimWins[DocIdOf(e)] = 0
             /\ genCalls[DocIdOf(e)] = 0
             /\ topic[DocIdOf(e)] = "none"
             /\ \A m \in dlq : m.doc_id # DocIdOf(e))
    /\ [][\A w \in Composers :
             /\ \A e \in NonContentNames, up \in BOOLEAN :
                   C_Receive(w, e, up)
                   => /\ cpc'[w] = "not_image"
                      /\ UNCHANGED <<docs, claimWins, genCalls, topic, dlq>>
             /\ \A e \in Events \ NonContentNames :
                   C_Receive(w, e, TRUE) /\ ~docs[DocIdOf(e)].exists
                   => cpc'[w] = "mark_generating" /\ docs'[DocIdOf(e)].exists
             /\ cpc[w] = "not_image" /\ ComposerStep(w)
                => /\ cpc'[w] = "idle"
                   /\ UNCHANGED <<docs, claimWins, genCalls, topic, dlq>>]_vars

\* a Composer has stopped at the gate on an object uploaded as image/jpeg
\* under the name of a text file, while the generator has run for an object
\* uploaded as text/plain under the name of an image
C24_Witness ==
    \E w, v \in Composers :
        /\ cpc[w] = "not_image"
        /\ cev[w].name = "notes.txt" /\ cev[w].contentType = "image/jpeg"
        /\ ~docs[DocIdOf(cev[w])].exists
        /\ cpc[v] = "sign"
        /\ cev[v].name = "cake.jpg" /\ cev[v].contentType = "text/plain"
        /\ genCalls[DocIdOf(cev[v])] = 1

\* the cases in which the lock of record d is not to be had
AcquireRefused(d) ==
    \/ ~docs[d].exists
    \/ docs[d].status \in TERMINAL_STATUSES
    \/ docs[d].status = "POSTING" /\ now - docs[d].locked_at < LOCK_TTL_SECONDS
    \/ docs[d].status \in {"RECEIVED", "GENERATING"}

\* the call returned no token and left every record as it was
AcquireReturnedNull == ~apiRet'.ret /\ apiRet'.token = NoToken /\ docs' = docs

\* the call wrote Posting with a token never issued before and the time of
\* the call, in one update of record d, and returned that token
AcquireLocked(d) ==
    /\ apiRet'.ret
    /\ apiRet'.token \notin IssuedTokens \cup {NoToken}
    /\ docs' = [docs EXCEPT ![d].status = "POSTING",
                            ![d].lock_token = apiRet'.token,
                            ![d].locked_at = now]

\* C25: acquire_posting_lock returns null and leaves the record unchanged when
\* the record is absent, Posted or Failed, Posting with a lock younger than
\* LOCK_TTL_SECONDS, or Received or Generating; in every other case (Queued,
\* or Posting with an expired lock) it writes Posting with a new token and
\* locked_at = now in one transaction and returns the token.
C25_AcquireCases ==
    [][\A up \in BOOLEAN :
          ApiAcquire(StoreDoc, up)
          => IF AcquireRefused(StoreDoc) THEN AcquireReturnedNull
             ELSE AcquireLocked(StoreDoc)]_vars

\* C25, amended: the same when the transaction goes through; when the store
\* fails during the transaction, acquire_posting_lock returns null and leaves
\* the record unchanged, also for a record that is Queued or whose lock has
\* expired.
C25_AcquireCasesUnlessStoreFails ==
    [][/\ ApiAcquire(StoreDoc, TRUE)
          => IF AcquireRefused(StoreDoc) THEN AcquireReturnedNull
             ELSE AcquireLocked(StoreDoc)
       /\ ApiAcquire(StoreDoc, FALSE) => AcquireReturnedNull]_vars

\* a direct call has taken over a lock whose age had reached LOCK_TTL_SECONDS
C25_Witness ==
    /\ apiRet.op = "acquire_posting_lock"
    /\ apiRet.ret
    /\ Len(grants[StoreDoc]) = 2
    /\ grants[StoreDoc][2].token = apiRet.token
    /\ grants[StoreDoc][2].at - grants[StoreDoc][1].at >= LOCK_TTL_SECONDS
    /\ docs[StoreDoc].status = "POSTING"
    /\ docs[StoreDoc].lock_token = apiRet.token
    /\ docs[StoreDoc].locked_at = now

\* C26: whenever a pointer for an id is in the message channel, the record of
\* the id exists with status Queued, Posting, Posted or Failed and holds both
\* the draft and the signed URL, also when a record update has failed.
C26_PointerOnlyAfterQueued ==
    \A i \in DocIds :
        topic[i] # "none"
        => /\ docs[i].exists
           /\ docs[i].status \in {"QUEUED", "POSTING", "POSTED", "FAILED"}
           /\ docs[i].draft # Null
           /\ docs[i].image_url # Null

\* a Composer step that changes a record
ComposerWrites(w, i) == ComposerStep(w) /\ docs'[i] # docs[i]

\* a Publisher step that changes a record
PublisherWrites(w, i) == PublisherStep(w) /\ docs'[i] # docs[i]

\* C27: the Composer writes to a record only while its status is Received or
\* Generating (the claim creates it), and the Publisher only while it is
\* Queued or Posting: once the Composer has written Queued it writes no more
\* to that record in the same invocation.
C27_StagesWriteInTheirStatuses ==
    [][\A i \in DocIds :
          /\ \A w \in Composers :
                ComposerWrites(w, i)
                => ~docs[i].exists \/ docs[i].status \in {"RECEIVED", "GENERATING"}
          /\ \A w \in Publishers :
                PublisherWrites(w, i) => docs[i].status \in {"QUEUED", "POSTING"}]_vars

\* C27, amended: the Composer writes to a record only while its status is
\* Received or Generating, except that when publishing the pointer raises
\* after Queued was written, its failure branch writes Failed with a failure
\* reason over Queued (no pointer was emitted); the Publisher writes only
\* while the status is Queued or Posting.
C27_StagesWriteInTheirStatusesUnlessPublishFails ==
    [][\A i \in DocIds :
          /\ \A w \in Composers :
                ComposerWrites(w, i)
                => \/ ~docs[i].exists
                   \/ docs[i].status \in {"RECEIVED", "GENERATING"}
                   \/ /\ docs[i].status = "QUEUED"
                      /\ C_FailExc(w, TRUE)
                      /\ DocIdOf(cev[w]) = i
                      /\ topic[i] = "none"
                      /\ docs'[i] = [docs[i] EXCEPT !.status = "FAILED",
                                                    !.failure_reason = "EXCEPTION"]
          /\ \A w \in Composers, ok \in BOOLEAN :
                C_Publish(w, ok) => docs' = docs
          /\ \A w \in Publishers :
                PublisherWrites(w, i) => docs[i].status \in {"QUEUED", "POSTING"}]_vars

\* a Composer whose publish raised has written Failed over the Queued record
\* and is about to forward to the dead-letter channel
C27_Witness ==
    \E w \in Composers :
        /\ cpc[w] = "dlq_exc"
        /\ docs[DocIdOf(cev[w])].status = "FAILED"
        /\ docs[DocIdOf(cev[w])].failure_reason = "EXCEPTION"
        /\ docs[DocIdOf(cev[w])].draft = Draft
        /\ docs[DocIdOf(cev[w])].image_url = SignedUrl
        /\ topic[DocIdOf(cev[w])] = "none"

\* the rounds so far that were rejected or could not be decoded
CritiquedRounds == {k \in DOMAIN rounds : rounds[k] \in {"rejected", "decode"}}

\* C28: a round that ends in a generator failure uses up a round and leaves
\* the prompt as it was; a round that ends in a rejection appends one critique
\* with the rejection reason and the rejected text; a round that ends in a
\* decode failure uses up a round and appends a decode-failure critique; so
\* the prompt holds one critique per rejected or undecodable round and none
\* for a failed generator call.
C28_OneCritiquePerRejectedRound ==
    /\ [](Len(prompt) = Cardinality(CritiquedRounds))
    /\ [][\A o \in RoundOutcomes :
            G_Round(o)
            => CASE o.kind = "failure"
                      -> attempt' = attempt + 1 /\ prompt' = prompt
                 [] o.kind = "decode"
                      -> /\ attempt' = attempt + 1
                         /\ prompt' = Append(prompt, [critic |-> "not valid JSON",
                                                      reason |-> Null,
                                                      draft |-> NoCaption])
                 [] OTHER
                      -> IF gpc' = "done" THEN prompt' = prompt
                         ELSE /\ attempt' = attempt + 1
                              /\ Len(prompt') = Len(prompt) + 1
                              /\ \A k \in DOMAIN prompt : prompt'[k] = prompt[k]
                              /\ prompt'[Len(prompt')].critic = "rejected"
                              /\ prompt'[Len(prompt')].reason
                                    = sentinel_check(o.parsed).reason
                              /\ prompt'[Len(prompt')].reason # "APPROVED"
                              /\ prompt'[Len(prompt')].draft = o.parsed.caption]_vars

\* after a failed generator call, an undecodable answer and a rejected draft,
\* the prompt holds the decode critique and the critique of the draft
C28_Witness ==
    /\ rounds = <<"failure", "decode", "rejected">>
    /\ attempt = 3
    /\ Len(prompt) = 2
    /\ prompt[1].critic = "not valid JSON"
    /\ prompt[2].reason = "TOO_SHORT"
    /\ prompt[2].draft = parsed.caption

\* C29: every caption the generation loop returns, having passed
\* sentinel_check, has fewer than 40 words and at least 5 words.
C29_AcceptedCaptionUnder40Words ==
    gpc = "done" /\ gret # NoCaption => Len(gret) < 40 /\ Len(gret) >= 5

\* the dead-letter messages of the Publisher that report a permanent failure
PermanentDeadLetters ==
    {m \in dlq : m.source = "bakers-poster-v1" /\ m.reason \in {"GBP_PERMANENT", "EXCEPTION"}}

\* C30: whenever the Publisher has sent a dead-letter message with a
\* permanent-failure reason for an id, the record of the id is Failed with a
\* failure reason, and is never Posted, whatever other workers did with the
\* lock in between.
C30_PermanentDeadLetterMeansFailed ==
    \A m \in PermanentDeadLetters :
        /\ docs[m.doc_id].status = "FAILED"
        /\ docs[m.doc_id].failure_reason # Null
        /\ docs[m.doc_id].status # "POSTED"

====
